---- MODULE Spec2Model ----
(***************************************************************************)
(* The SD-card command transaction engine, card_command                    *)
(* (src/src/card_command.rs), as a state machine.  One call of the engine  *)
(* is modelled: the outer 'spi loop alternates between the interpreter     *)
(* (one action per Phase arm of the inner while loop) and the planner      *)
(* followed by one in-place SPI transfer.                                  *)
(***************************************************************************)
EXTENDS Integers, Sequences, FiniteSets, TLC

(***************************************************************************)
(* Bounds of the model.                                                    *)
(***************************************************************************)
MaxScratch == 7       \* scratch buffer lengths 1..MaxScratch, and
FullScratch == 13     \* one scratch buffer that holds a whole single-part read
MaxPreFetch == 1      \* expected_bytes_until_{response,data,not_busy} in 0..MaxPreFetch
MaxResponse == 2      \* response.len() in 1..MaxResponse
MaxParts == 2         \* ReadOperation.parts in 1..MaxParts
PartSize == 3         \* ReadOperation.part_size (512 on the card, scaled down)
MaxFill == 1          \* filler bytes the card puts before a response / a start token
MaxBusy == 3          \* 0x00 busy bytes the card sends before releasing
MaxShort == 2         \* how much shorter than parts * part_size - skip_bytes a destination may be
MaxTime == 2          \* the clock saturates at MaxTime ticks
DiskBlockSize == 4    \* the block of the disk (512 bytes on the card, scaled down)
DiskBlocks == 4       \* blocks on the disk
MaxClocked == 32      \* no transfer is started once this many bytes were clocked
ReturnMaxTime == 40   \* the same two limits where the clock advances with every
ReturnMaxClocked == 120   \* transfer: neither is reached by a call that ends

(***************************************************************************)
(* Program constants.                                                      *)
(***************************************************************************)
CommandSize == 6              \* size_of::<Command>()
CrcSize == 2                  \* size_of::<u16>()
START_BLOCK_TOKEN == 254
UsizeModulus == 2^16          \* usize arithmetic wraps modulo 2^w (w scaled to 16)
ResponseTimeout == 1          \* response_timeout, in clock ticks
ReadTimeout == 1              \* ReadOperation.timeout, in clock ticks

Min(a, b) == IF a < b THEN a ELSE b

Wrap(x) == x % UsizeModulus

(***************************************************************************)
(* CRC-16/XMODEM (poly 0x1021, init 0, no reflection, xorout 0), the       *)
(* digest the engine keeps while a part is received.                       *)
(***************************************************************************)
XorBits[a \in Nat, b \in Nat] ==
    IF a = 0 THEN b
    ELSE IF b = 0 THEN a
    ELSE ((a + b) % 2) + 2 * XorBits[a \div 2, b \div 2]

Xor(a, b) == XorBits[a, b]

\* one shift of the register, with the polynomial fed back
Crc16Step ==
    [crc \in Nat |->
        IF crc >= 32768
        THEN Xor((crc * 2) % 65536, 4129)
        ELSE (crc * 2) % 65536]

RECURSIVE Crc16Shift(_, _)
Crc16Shift(crc, n) ==
    IF n = 0 THEN crc ELSE Crc16Step[Crc16Shift(crc, n - 1)]

\* the 256-entry table the digest is driven by
Crc16Table == [i \in 0..255 |-> Crc16Shift(i * 256, 8)]

Crc16UpdateByte ==
    [crc \in Nat, byte \in Nat |->
        Xor((crc % 256) * 256, Crc16Table[Xor(crc \div 256, byte)])]

\* the digest after the first n of bytes
RECURSIVE DigestFold(_, _, _)
DigestFold(digest, bytes, n) ==
    IF n = 0 THEN digest
    ELSE Crc16UpdateByte[DigestFold(digest, bytes, n - 1), bytes[n]]

DigestUpdate(digest, bytes) == DigestFold(digest, bytes, Len(bytes))

DigestNew == 0

DigestFinalize(digest) == digest

U16FromBeBytes(byte_0, byte_1) == byte_0 * 256 + byte_1

(***************************************************************************)
(* format_command (src/src/lib.rs): the six bytes of a command frame.  A    *)
(* u32 argument is kept as its two 16-bit halves [hi, lo].                  *)
(***************************************************************************)
\* bitfield setter: bits msb..lsb of byte := value, masked to the field
SetBitRange(byte, msb, lsb, value) ==
    LET width == msb - lsb + 1
        field == (byte \div 2^lsb) % 2^width
    IN  byte - field * 2^lsb + (value % 2^width) * 2^lsb

SetBit(byte, bit, value) == SetBitRange(byte, bit, bit, IF value THEN 1 ELSE 0)

\* CommandByte0: start bit 7, transmission bit 6, command index 5..0
CommandByte0(command_index) ==
    SetBitRange(SetBit(SetBit(0, 7, FALSE), 6, TRUE), 5, 0, command_index)

\* variant: the end bit is left clear
CommandByte5NoEndBit(crc7) == SetBitRange(0, 7, 1, crc7)

\* CommandByte5: crc7 in bits 7..1, end bit 0
CommandByte5(crc7) == SetBit(SetBitRange(0, 7, 1, crc7), 0, TRUE)

\* u32::to_be_bytes
ToBeBytes(argument) ==
    <<argument.hi \div 256, argument.hi % 256,
      argument.lo \div 256, argument.lo % 256>>

\* CRC-7/MMC (poly 0x09, init 0, no reflection, xorout 0), one bit at a time
Crc7Bit(crc, bit) ==
    LET shifted == (crc * 2) % 128
    IN  IF crc \div 64 # bit THEN Xor(shifted, 9) ELSE shifted

\* the CRC after the n most significant bits of byte
RECURSIVE Crc7Byte(_, _, _)
Crc7Byte(crc, byte, n) ==
    IF n = 0 THEN crc
    ELSE Crc7Bit(Crc7Byte(crc, byte, n - 1), (byte \div 2^(8 - n)) % 2)

\* the 256-entry table the checksum is driven by
Crc7Table == [i \in 0..255 |-> Crc7Byte(0, i, 8)]

Crc7UpdateByte(crc, byte) == Crc7Table[Xor(crc * 2, byte)]

RECURSIVE Crc7Checksum(_, _)
Crc7Checksum(crc, bytes) ==
    IF bytes = <<>> THEN crc
    ELSE Crc7UpdateByte(Crc7Checksum(crc, SubSeq(bytes, 1, Len(bytes) - 1)),
                        bytes[Len(bytes)])

format_command(command_index, argument) ==
    LET head == <<CommandByte0(command_index)>> \o ToBeBytes(argument)
    IN  head \o <<CommandByte5(Crc7Checksum(0, head))>>

(***************************************************************************)
(* The card: the byte stream it puts on MISO, chosen when the call starts. *)
(* A scenario describes the stream: six bytes while the command is clocked *)
(* out, filler, the response, then the tail the operation expects.         *)
(***************************************************************************)
IdleByte == 255       \* 0xFF, the idle line
GarbageByte == 128    \* R1::BIT_7 alone: bit 7 set, not 0xFF
R1Byte == 1           \* R1::IN_IDLE_STATE

Repeat(byte, n) == [i \in 1..n |-> byte]

\* what the card drives while the command is clocked out: bytes with bit 7
\* clear, which would pass for an R1 if they were scanned
CommandTimeBytes == Repeat(127, CommandSize)

\* the content of a response slot or a destination before the call
Untouched(n) == Repeat(238, n)

\* what the card sends in place of a start token when the read failed
DataErrorToken == <<13>>

FillBytes(n, garbage) ==
    [i \in 1..n |-> IF garbage /\ i = n THEN GarbageByte ELSE IdleByte]

\* the response: R1 followed by bytes with bit 7 set
ResponseBytes(len) == [i \in 1..len |-> IF i = 1 THEN R1Byte ELSE 192 + i]

\* payload byte at offset g (0-based) of the concatenated parts: all distinct,
\* and the first part contains the start token, 0x00 and 0xFF as data
PayloadByte(g) ==
    IF g = 0 THEN START_BLOCK_TOKEN
    ELSE IF g = 1 THEN 0
    ELSE IF g = 2 THEN 255
    ELSE 16 + g

PartPayload(part, part_size) ==
    [i \in 1..part_size |-> PayloadByte((part - 1) * part_size + i - 1)]

PartCrc(part, part_size) == DigestUpdate(0, PartPayload(part, part_size))

\* a part as the card sends it: filler, token, payload, CRC big-endian
PartBytes(part, part_size, data_fill, fault) ==
    LET crc == PartCrc(part, part_size)
        bad == fault.part = part
        sent == IF bad /\ fault.kind = "crc_lo" THEN Xor(crc, 1)
                ELSE IF bad /\ fault.kind = "crc_hi" THEN Xor(crc, 256)
                ELSE crc
    IN  IF bad /\ fault.kind = "silent" THEN Repeat(IdleByte, data_fill)
        ELSE IF bad /\ fault.kind = "token"
        THEN Repeat(IdleByte, data_fill) \o DataErrorToken
        ELSE Repeat(IdleByte, data_fill) \o <<START_BLOCK_TOKEN>>
             \o PartPayload(part, part_size)
             \o <<sent \div 256, sent % 256>>

RECURSIVE ReadTail(_, _, _, _, _)
ReadTail(part, parts, part_size, data_fill, fault) ==
    IF part > parts THEN <<>>
    ELSE IF fault.part = part /\ fault.kind \in {"silent", "token"}
    THEN PartBytes(part, part_size, data_fill, fault)
    ELSE PartBytes(part, part_size, data_fill, fault)
         \o ReadTail(part + 1, parts, part_size, data_fill, fault)

BusyTail(busy, release) == Repeat(0, busy) \o <<release>>

NoFault == [kind |-> "none", part |-> 0]

Faults(parts) ==
    {NoFault} \cup
    [kind : {"token", "crc_lo", "crc_hi", "silent"}, part : 1..parts]

\* CMD17 (READ_SINGLE_BLOCK) with argument 0x01020304
Command17Index == 17

Command17Argument == [hi |-> 258, lo |-> 772]

Command17 == format_command(Command17Index, Command17Argument)

(***************************************************************************)
(* State.                                                                  *)
(***************************************************************************)
VARIABLES
    buffer,                         \* the scratch buffer
    command_index,                  \* format_command's command_index
    argument,                       \* format_command's argument
    command,                        \* the six command bytes
    expected_bytes_until_response,
    response,                       \* the response slot
    response_timeout,
    operation,                      \* Option<CardCommandOperation>
    phase,
    buffer_valid_bytes,
    bytes_processed,
    result,                         \* Running, Ok, an error, or a panic
    overflow_checks,                \* build profile: "on", "off", or "either" while no overflow happened
    now,                            \* the monotonic clock, in ticks since the command was sent
    card,                           \* the bytes the card sends, in order
    scenario,                       \* how card was built
    clocked,                        \* number of bytes clocked so far
    clocked_out,                    \* every byte the host has sent
    bytes_to_transfer,              \* length of the last transfer issued
    response_end,                   \* end index of the last response write
    dest_end,                       \* end index of the last destination write
    command_sent_at,                \* clock when the command was sent
    read_start,                     \* SdCardDisk::read's start
    block_address,                  \* SdCardDisk::read's loop variable
    cs,                             \* level of the chip-select pin
    got_response,                   \* init_card's got_response
    attempt_number,                 \* init_card's attempt_number
    issued,                         \* what init_card has done on the bus, in order
    byte_seen,                      \* a CMD0 attempt has received a byte other than 0xFF
    spi_failed,                     \* init_card's last bus operation reported a transport error
    lock,                           \* who holds the mutex of the shared bus
    intruded                        \* another bus user has clocked bytes while CS was low

vars == <<buffer, read_start, block_address, command_index, argument,
          command, expected_bytes_until_response, response,
          response_timeout, operation, phase, buffer_valid_bytes,
          bytes_processed, result, overflow_checks, now, card, scenario,
          clocked, clocked_out, bytes_to_transfer, response_end, dest_end,
          command_sent_at, cs, got_response, attempt_number, issued,
          byte_seen, spi_failed, lock, intruded>>

\* the variables of init_card and of the shared bus
card_init == <<cs, got_response, attempt_number, issued, byte_seen,
               spi_failed, lock, intruded>>

\* init_card has not been entered
NoCardInit ==
    /\ cs = "high"
    /\ got_response = FALSE
    /\ attempt_number = 0
    /\ issued = <<>>
    /\ byte_seen = FALSE
    /\ spi_failed = FALSE
    /\ lock = "free"
    /\ intruded = FALSE

inputs == <<read_start, block_address, command_index, argument, command,
            expected_bytes_until_response, response_timeout, card, scenario,
            card_init>>

ghosts == <<bytes_to_transfer, response_end, dest_end, command_sent_at>>

\* variant: the loop carries on after a transport error
RunningAfterSpiError == result.tag \in {"Running", "Spi"}

\* the call has not returned
Running == result.tag = "Running"

OpIs(kind) == operation.kind = kind

\* the byte the card drives while the host clocks byte number pos (1-based)
CardByte(pos) == IF pos <= Len(card) THEN card[pos] ELSE IdleByte

(***************************************************************************)
(* The calls the model explores.                                           *)
(***************************************************************************)
Scenario(fill, garbage, responds, data_fill, fault, busy, release) ==
    [fill |-> fill, garbage |-> garbage, responds |-> responds,
     data_fill |-> data_fill, fault |-> fault, busy |-> busy,
     release |-> release]

Call(buffer_len, pre, response_len, op, scn) ==
    [buffer_len |-> buffer_len, pre |-> pre, response_len |-> response_len,
     operation |-> op, scenario |-> scn]

ReadOp(parts, skip_bytes, crc_enabled, pre, short) ==
    [kind |-> "Read",
     buffer |-> Untouched(parts * PartSize - skip_bytes - short),
     expected_bytes_until_data |-> pre,
     timeout |-> ReadTimeout,
     parts |-> parts,
     part_size |-> PartSize,
     crc_enabled |-> crc_enabled,
     skip_bytes |-> skip_bytes]

ScratchLens == (1..MaxScratch) \cup {FullScratch}

\* the stream of a scenario for a call
Stream(call) ==
    LET scn == call.scenario
        op == call.operation
        tail == IF op.kind = "Read"
                THEN ReadTail(1, op.parts, op.part_size, scn.data_fill, scn.fault)
                ELSE IF op.kind = "BusySignal"
                THEN BusyTail(scn.busy, scn.release)
                ELSE <<>>
    IN  CommandTimeBytes
        \o FillBytes(scn.fill, scn.garbage)
        \o (IF scn.responds
            THEN ResponseBytes(call.response_len) \o tail
            ELSE <<>>)

\* the state when card_command is entered with the arguments of call and
\* a scratch buffer that holds scratch
InitScratch(call, scratch) ==
    /\ buffer = scratch
    /\ NoCardInit
    /\ read_start = 0
    /\ block_address = 0
    /\ command_index = Command17Index
    /\ argument = Command17Argument
    /\ command = Command17
    /\ expected_bytes_until_response = call.pre
    /\ response = Untouched(call.response_len)
    /\ response_timeout = ResponseTimeout
    /\ operation = call.operation
    /\ phase = [tag |-> "SendCommand", bytes_sent |-> 0]
    /\ buffer_valid_bytes = 0
    /\ bytes_processed = 0
    /\ result = [tag |-> "Running"]
    /\ overflow_checks = "either"
    /\ now = 0
    /\ card = Stream(call)
    /\ scenario = call.scenario
    /\ clocked = 0
    /\ clocked_out = <<>>
    /\ bytes_to_transfer = 0
    /\ response_end = 0
    /\ dest_end = 0
    /\ command_sent_at = 0

\* the state when card_command is entered with the arguments of call
InitCall(call) == InitScratch(call, Repeat(0, call.buffer_len))

\* no operation: the card answers after some filler, or never
NoneInit ==
    \E b \in ScratchLens, p \in 0..MaxPreFetch, r \in 1..MaxResponse,
       f \in 0..MaxFill, g \in BOOLEAN, rs \in BOOLEAN :
        /\ g => f >= 1
        /\ InitCall(Call(b, p, r, [kind |-> "None"],
                         Scenario(f, g, rs, 0, NoFault, 0, IdleByte)))

WriteInit ==
    \E b \in ScratchLens :
        InitCall(Call(b, MaxPreFetch, 1, [kind |-> "Write"],
                      Scenario(0, FALSE, TRUE, 0, NoFault, 0, IdleByte)))

\* busy signal: the card holds the line at 0x00 for z bytes, then releases
BusyInit ==
    \E b \in ScratchLens, p \in 0..MaxPreFetch, r \in 1..MaxResponse,
       h \in 0..MaxPreFetch, z \in 0..MaxBusy, rel \in {R1Byte, IdleByte} :
        InitCall(Call(b, p, r,
                      [kind |-> "BusySignal",
                       expected_bytes_until_not_busy |-> h],
                      Scenario(0, FALSE, TRUE, 0, NoFault, z, rel)))

\* reads into a destination of exactly parts * part_size - skip_bytes bytes
ReadInit ==
    \E n \in 1..MaxParts :
        \E b \in ScratchLens, s \in 0..(PartSize - 1), crc \in BOOLEAN,
           h \in 0..MaxPreFetch, f \in 0..MaxFill, fault \in Faults(n) :
            InitCall(Call(b, MaxPreFetch, 1, ReadOp(n, s, crc, h, 0),
                          Scenario(f, FALSE, TRUE, f, fault, 0, IdleByte)))

\* single-part reads into a destination that is too short
ShortReadInit ==
    \E b \in ScratchLens, s \in 0..(PartSize - 1), short \in 1..MaxShort :
        /\ PartSize - s - short >= 0
        /\ InitCall(Call(b, MaxPreFetch, 1,
                         ReadOp(1, s, TRUE, MaxPreFetch, short),
                         Scenario(0, FALSE, TRUE, 0, NoFault, 0, IdleByte)))

Init == NoneInit \/ WriteInit \/ BusyInit \/ ReadInit \/ ShortReadInit

(***************************************************************************)
(* Results of the call.                                                    *)
(***************************************************************************)
Ok == [tag |-> "Ok"]

ErrSpi == [tag |-> "Spi"]

ErrReceiveResponseTimeout(data_received) ==
    [tag |-> "ReceiveResponseTimeout", data_received |-> data_received]

ErrExpectedStartBlockToken == [tag |-> "ExpectedStartBlockToken"]

ErrInvalidCrc == [tag |-> "InvalidCrc"]

ErrReceiveDataTimeout(parts_read) ==
    [tag |-> "ReceiveDataTimeout", parts_read |-> parts_read]

Panic(what) == [tag |-> "Panic", what |-> what]

(***************************************************************************)
(* Phase values.                                                           *)
(***************************************************************************)
PhaseSendCommand(bytes_sent) ==
    [tag |-> "SendCommand", bytes_sent |-> bytes_sent]

PhaseReceiveResponseStart(start_time, data_received) ==
    [tag |-> "ReceiveResponseStart", start_time |-> start_time,
     data_received |-> data_received]

PhaseReceiveResponse(bytes_received) ==
    [tag |-> "ReceiveResponse", bytes_received |-> bytes_received]

PhaseWaitUntilNotBusy(busy_bytes) ==
    [tag |-> "WaitUntilNotBusy", busy_bytes |-> busy_bytes]

PhaseReceiveStartBlockToken(start_time, parts_read) ==
    [tag |-> "ReceiveStartBlockToken", start_time |-> start_time,
     parts_read |-> parts_read]

PhaseReceiveData(digest, parts_read, bytes_received) ==
    [tag |-> "ReceiveData", digest |-> digest, parts_read |-> parts_read,
     bytes_received |-> bytes_received]

None == -1      \* Option<u8>::None for the first CRC byte

PhaseReceiveCrc(expected_crc, parts_read, byte_0) ==
    [tag |-> "ReceiveCrc", expected_crc |-> expected_crc,
     parts_read |-> parts_read, byte_0 |-> byte_0]

PhaseWriteData(n) == [tag |-> "WriteData", bytes_written |-> n]

(***************************************************************************)
(* The planner: the length of the next transfer.                           *)
(***************************************************************************)
\* bytes one part is expected to take, as the planner counts them
PartCost ==
    operation.expected_bytes_until_data + Len(operation.buffer) + CrcSize

\* the planner's match on the operation in the three response phases
TailCost ==
    CASE OpIs("None") -> 0
      [] OpIs("Read") -> PartCost * operation.parts
      [] OpIs("BusySignal") -> operation.expected_bytes_until_not_busy
      [] OTHER -> 0

\* todo!() in the planner
PlanTodo ==
    \/ phase.tag = "WriteData"
    \/ /\ OpIs("Write")
       /\ phase.tag \in {"SendCommand", "ReceiveResponseStart", "ReceiveResponse"}

\* op.buffer.len() - bytes_received underflows
PlanOverflow ==
    /\ phase.tag = "ReceiveData"
    /\ Len(operation.buffer) < phase.bytes_received

CommandCopyLen ==
    IF phase.tag = "SendCommand"
    THEN Min(CommandSize - phase.bytes_sent, Len(buffer))
    ELSE 0

\* the length before it is clipped to the scratch buffer
PlanTotal ==
    CASE phase.tag = "SendCommand" ->
            CommandCopyLen + expected_bytes_until_response + Len(response)
            + TailCost
      [] phase.tag = "ReceiveResponseStart" ->
            expected_bytes_until_response + Len(response) + TailCost
      [] phase.tag = "ReceiveResponse" ->
            Len(response) - phase.bytes_received + TailCost
      [] phase.tag = "ReceiveStartBlockToken" ->
            PartCost * (operation.parts - phase.parts_read)
      [] phase.tag = "ReceiveData" ->
            Wrap(Len(operation.buffer) - phase.bytes_received + CrcSize
                 + PartCost * (operation.parts - (phase.parts_read + 1)))
      [] phase.tag = "ReceiveCrc" ->
            CrcSize - (IF phase.byte_0 # None THEN 1 ELSE 0)
            + PartCost * (operation.parts - (phase.parts_read + 1))
      [] phase.tag = "WaitUntilNotBusy" ->
            operation.expected_bytes_until_not_busy
      [] OTHER -> 0

ClipToBuffer(n) == Min(n, Len(buffer))

BytesToTransfer == ClipToBuffer(PlanTotal)

\* variant: the assertion is dropped
AssertNeDropped(n) == TRUE

\* assert_ne!(bytes_to_transfer, 0)
AssertNe(n) == n # 0

\* variant: the bytes after the command bytes are left as they are
PrimedBufferStale ==
    [i \in 1..Len(buffer) |->
        IF i <= CommandCopyLen THEN command[phase.bytes_sent + i]
        ELSE buffer[i]]

\* variant: the 0xFF fill starts one byte late
PrimedBufferLateFill ==
    [i \in 1..Len(buffer) |->
        IF i <= CommandCopyLen THEN command[phase.bytes_sent + i]
        ELSE IF i > CommandCopyLen + 1 /\ i <= BytesToTransfer THEN 255
        ELSE buffer[i]]

\* the scratch buffer as the planner leaves it: command bytes, then 0xFF
PrimedBuffer ==
    [i \in 1..Len(buffer) |->
        IF i <= CommandCopyLen THEN command[phase.bytes_sent + i]
        ELSE IF i <= BytesToTransfer THEN 255
        ELSE buffer[i]]

\* the inner while loop has nothing left to process
AtPlanner == Running /\ bytes_processed >= buffer_valid_bytes

\* the planner gets as far as the transfer
PlanProceeds ==
    /\ AtPlanner
    /\ ~PlanTodo
    /\ PlanOverflow => overflow_checks # "on"
    /\ AssertNe(BytesToTransfer)

AfterOverflow(happened, profile) ==
    IF happened THEN profile ELSE overflow_checks

engine == <<phase, buffer_valid_bytes, bytes_processed>>

io == <<buffer, now, clocked, clocked_out>>

slots == <<response, operation>>

\* the planner panics: todo!(), arithmetic overflow, or the assertion
PlanPanic ==
    /\ AtPlanner
    /\ \/ /\ PlanTodo
          /\ result' = Panic("todo")
          /\ UNCHANGED overflow_checks
       \/ /\ ~PlanTodo
          /\ PlanOverflow
          /\ overflow_checks # "off"
          /\ result' = Panic("overflow")
          /\ overflow_checks' = "on"
       \/ /\ ~PlanTodo
          /\ PlanOverflow => overflow_checks # "on"
          /\ ~AssertNe(BytesToTransfer)
          /\ result' = Panic("assert_ne")
          /\ overflow_checks' = AfterOverflow(PlanOverflow, "off")
    /\ UNCHANGED <<engine, io, slots, inputs, ghosts>>

\* how far the clock moves during one transfer.  The clock is read only
\* through Instant::now() and elapsed(), and the first Instant is taken when
\* the command has been sent: now counts the ticks since then.
Ticks == IF phase.tag = "SendCommand" THEN {0} ELSE 0..1

\* spi.transfer_in_place(&mut buffer[..bytes_to_transfer]) succeeds, while
\* the clock moves by one of ticks; the clock saturates at horizon and no
\* transfer starts that would clock more than limit bytes in all
Transfer(ticks, horizon, limit) ==
    /\ PlanProceeds
    /\ clocked + BytesToTransfer <= limit
    /\ buffer' = [i \in 1..Len(buffer) |->
                    IF i <= BytesToTransfer THEN CardByte(clocked + i)
                    ELSE PrimedBuffer[i]]
    /\ clocked_out' = clocked_out \o SubSeq(PrimedBuffer, 1, BytesToTransfer)
    /\ clocked' = clocked + BytesToTransfer
    /\ bytes_to_transfer' = BytesToTransfer
    /\ buffer_valid_bytes' = BytesToTransfer
    /\ bytes_processed' = 0
    /\ \E tick \in ticks : now' = Min(now + tick, horizon)
    /\ overflow_checks' = AfterOverflow(PlanOverflow, "off")
    /\ UNCHANGED <<phase, result, slots, inputs, response_end, dest_end,
                   command_sent_at>>

TransferInPlace == Transfer(Ticks, MaxTime, MaxClocked)

\* spi.transfer_in_place fails
TransferSpiError ==
    /\ PlanProceeds
    /\ clocked + BytesToTransfer <= MaxClocked
    /\ result' = ErrSpi
    /\ bytes_to_transfer' = BytesToTransfer
    /\ overflow_checks' = AfterOverflow(PlanOverflow, "off")
    /\ UNCHANGED <<engine, io, slots, inputs, response_end, dest_end,
                   command_sent_at>>

(***************************************************************************)
(* The interpreter: one action per arm of the match in the inner loop.     *)
(***************************************************************************)
\* buffer[bytes_processed..buffer_valid_bytes]
bytes_to_process == SubSeq(buffer, bytes_processed + 1, buffer_valid_bytes)

Processing(tag) ==
    /\ Running
    /\ buffer_valid_bytes > bytes_processed
    /\ phase.tag = tag

Bit7Clear(byte) == byte < 128

SendCommand ==
    /\ Processing("SendCommand")
    /\ LET bytes_sent == phase.bytes_sent
           bytes_to_send == CommandSize - bytes_sent
           command_bytes_sent == Min(bytes_to_send, Len(bytes_to_process))
           new_bytes_sent == bytes_sent + command_bytes_sent
       IN  /\ bytes_processed' = bytes_processed + command_bytes_sent
           /\ IF new_bytes_sent = CommandSize
              THEN /\ phase' = PhaseReceiveResponseStart(now, FALSE)
                   /\ command_sent_at' = now
              ELSE /\ phase' = PhaseSendCommand(new_bytes_sent)
                   /\ UNCHANGED command_sent_at
    /\ UNCHANGED <<buffer_valid_bytes, result, overflow_checks, io, slots,
                   inputs, bytes_to_transfer, response_end, dest_end>>

\* variant: the scan takes the first byte that is not 0xFF for R1
RECURSIVE ScanR1AnyData(_, _, _)
ScanR1AnyData(bytes, i, data_received) ==
    IF i < Len(bytes)
    THEN IF bytes[i + 1] # 255
         THEN [r1_index |-> i, data_received |-> TRUE]
         ELSE ScanR1AnyData(bytes, i + 1, data_received)
    ELSE [r1_index |-> None, data_received |-> data_received]

\* variant: the scan forgets what earlier transfers of the phase have seen
RECURSIVE ScanR1Fresh(_, _, _)
ScanR1Fresh(bytes, i, seen) ==
    IF i < Len(bytes)
    THEN LET byte == bytes[i + 1]
         IN  IF byte # 255
             THEN IF Bit7Clear(byte)
                  THEN [r1_index |-> i, data_received |-> TRUE]
                  ELSE ScanR1Fresh(bytes, i + 1, TRUE)
             ELSE ScanR1Fresh(bytes, i + 1, seen)
    ELSE [r1_index |-> None, data_received |-> seen]

ScanR1Forgetful(bytes, i, data_received) == ScanR1Fresh(bytes, i, FALSE)

\* the scan for R1: the index (0-based) of the first byte with bit 7 clear,
\* or None, and whether a byte other than 0xFF was seen
RECURSIVE ScanR1(_, _, _)
ScanR1(bytes, i, data_received) ==
    IF i < Len(bytes)
    THEN LET byte == bytes[i + 1]
         IN  IF byte # 255
             THEN IF Bit7Clear(byte)
                  THEN [r1_index |-> i, data_received |-> TRUE]
                  ELSE ScanR1(bytes, i + 1, TRUE)
             ELSE ScanR1(bytes, i + 1, data_received)
    ELSE [r1_index |-> None, data_received |-> data_received]

Elapsed(start_time) == now - start_time

\* variant: the bytes scanned are stored in the response slot before the
\* deadline is checked
ReceiveResponseStartStoresScan ==
    /\ Processing("ReceiveResponseStart")
    /\ LET scan == ScanR1(bytes_to_process, 0, phase.data_received)
       IN  IF scan.r1_index # None
           THEN /\ bytes_processed' = bytes_processed + scan.r1_index
                /\ phase' = PhaseReceiveResponse(0)
                /\ UNCHANGED <<result, response>>
           ELSE IF Elapsed(phase.start_time) >= response_timeout
           THEN /\ result' = ErrReceiveResponseTimeout(scan.data_received)
                /\ response' = [i \in 1..Len(response) |->
                                    IF i <= Len(bytes_to_process)
                                    THEN bytes_to_process[i]
                                    ELSE response[i]]
                /\ UNCHANGED <<bytes_processed, phase>>
           ELSE /\ bytes_processed' = buffer_valid_bytes
                /\ phase' = PhaseReceiveResponseStart(phase.start_time,
                                                     scan.data_received)
                /\ UNCHANGED <<result, response>>
    /\ UNCHANGED <<buffer_valid_bytes, overflow_checks, io, operation, inputs,
                   ghosts>>

ReceiveResponseStart ==
    /\ Processing("ReceiveResponseStart")
    /\ LET scan == ScanR1(bytes_to_process, 0, phase.data_received)
       IN  IF scan.r1_index # None
           THEN /\ bytes_processed' = bytes_processed + scan.r1_index
                /\ phase' = PhaseReceiveResponse(0)
                /\ UNCHANGED result
           ELSE IF Elapsed(phase.start_time) >= response_timeout
           THEN /\ result' = ErrReceiveResponseTimeout(scan.data_received)
                /\ UNCHANGED <<bytes_processed, phase>>
           ELSE /\ bytes_processed' = buffer_valid_bytes
                /\ phase' = PhaseReceiveResponseStart(phase.start_time,
                                                     scan.data_received)
                /\ UNCHANGED result
    /\ UNCHANGED <<buffer_valid_bytes, overflow_checks, io, slots, inputs,
                   ghosts>>

\* variant: a Read goes on to the data without waiting for the start token
AfterResponseNoToken ==
    CASE OpIs("Read") -> PhaseReceiveData(DigestNew, 0, 0)
      [] OpIs("Write") -> PhaseWriteData(0)
      [] OpIs("BusySignal") -> PhaseWaitUntilNotBusy(0)
      [] OTHER -> phase

\* the phase that follows the last response byte
AfterResponse ==
    CASE OpIs("Read") -> PhaseReceiveStartBlockToken(now, 0)
      [] OpIs("Write") -> PhaseWriteData(0)
      [] OpIs("BusySignal") -> PhaseWaitUntilNotBusy(0)
      [] OTHER -> phase

\* dest[dest_start .. dest_start + len) := src[src_start .. src_start + len)
CopyFromSlice(dest, dest_start, src, src_start, len) ==
    [i \in 1..Len(dest) |->
        IF i > dest_start /\ i <= dest_start + len
        THEN src[src_start + (i - dest_start)]
        ELSE dest[i]]

\* variant: the response counts as complete after its first byte
ResponseCompleteEarly(new_bytes_received) == new_bytes_received >= 1

\* the whole response has been received
ResponseComplete(new_bytes_received) == new_bytes_received = Len(response)

ReceiveResponse ==
    /\ Processing("ReceiveResponse")
    /\ LET bytes_received == phase.bytes_received
           bytes_to_receive == Len(response) - bytes_received
           copy_len == Min(bytes_to_receive, Len(bytes_to_process))
           new_bytes_received == bytes_received + copy_len
       IN  /\ response' = CopyFromSlice(response, bytes_received,
                                        bytes_to_process, 0, copy_len)
           /\ response_end' = bytes_received + copy_len
           /\ bytes_processed' = bytes_processed + copy_len
           /\ IF ResponseComplete(new_bytes_received)
              THEN IF OpIs("None")
                   THEN result' = Ok /\ UNCHANGED phase
                   ELSE phase' = AfterResponse /\ UNCHANGED result
              ELSE /\ phase' = PhaseReceiveResponse(new_bytes_received)
                   /\ UNCHANGED result
    /\ UNCHANGED <<buffer_valid_bytes, overflow_checks, io, operation, inputs,
                   bytes_to_transfer, dest_end, command_sent_at>>

\* number of leading zero bytes
RECURSIVE BusyScan(_, _)
BusyScan(bytes, i) ==
    IF i < Len(bytes) /\ bytes[i + 1] = 0 THEN BusyScan(bytes, i + 1) ELSE i

WaitUntilNotBusy ==
    /\ Processing("WaitUntilNotBusy")
    /\ LET i == BusyScan(bytes_to_process, 0)
       IN  IF i < Len(bytes_to_process)
           THEN result' = Ok /\ UNCHANGED phase
           ELSE phase' = PhaseWaitUntilNotBusy(i) /\ UNCHANGED result
    /\ UNCHANGED <<buffer_valid_bytes, bytes_processed, overflow_checks, io,
                   slots, inputs, ghosts>>

\* number of leading 0xFF bytes
RECURSIVE TokenScan(_, _)
TokenScan(bytes, i) ==
    IF i < Len(bytes) /\ bytes[i + 1] = 255 THEN TokenScan(bytes, i + 1) ELSE i

\* variant: any byte other than 0xFF starts a block
IsStartBlockTokenAnyData(byte) == byte # 255

\* byte == START_BLOCK_TOKEN
IsStartBlockToken(byte) == byte = START_BLOCK_TOKEN

ReceiveStartBlockToken ==
    /\ Processing("ReceiveStartBlockToken")
    /\ LET i == TokenScan(bytes_to_process, 0)
           found == i < Len(bytes_to_process)
           timed_out == Elapsed(phase.start_time) > operation.timeout
       IN  IF found /\ ~IsStartBlockToken(bytes_to_process[i + 1])
           THEN /\ result' = ErrExpectedStartBlockToken
                /\ bytes_processed' = bytes_processed + i + 1
                /\ UNCHANGED phase
           ELSE /\ bytes_processed' =
                      bytes_processed + (IF found THEN i + 1 ELSE i)
                /\ phase' = IF found
                            THEN PhaseReceiveData(DigestNew, phase.parts_read, 0)
                            ELSE phase
                /\ result' = IF timed_out
                             THEN ErrReceiveDataTimeout(phase.parts_read)
                             ELSE result
    /\ UNCHANGED <<buffer_valid_bytes, overflow_checks, io, slots, inputs,
                   ghosts>>

\* variant: a chunk that straddles the end of the skip prefix is copied from
\* its first byte
SkipMappingFromZero(parts_read, bytes_received, read_len) ==
    LET start == parts_read * operation.part_size + bytes_received
        skip_bytes == operation.skip_bytes
        bytes_to_skip == Wrap(skip_bytes - bytes_received)
    IN  IF start < skip_bytes
        THEN IF start + read_len > skip_bytes
             THEN [overflow |-> FALSE, dest_start |-> 0, src_start |-> 0,
                   copy_len |-> Wrap(read_len - bytes_to_skip)]
             ELSE [overflow |-> FALSE, dest_start |-> 0, src_start |-> 0,
                   copy_len |-> 0]
        ELSE [overflow |-> FALSE, dest_start |-> start - skip_bytes,
              src_start |-> 0, copy_len |-> read_len]

\* (dest_start, src_start, copy_len) of a chunk of read_len raw bytes: the
\* skip prefix is dropped
SkipMapping(parts_read, bytes_received, read_len) ==
    LET start == parts_read * operation.part_size + bytes_received
        skip_bytes == operation.skip_bytes
        bytes_to_skip == Wrap(skip_bytes - bytes_received)
    IN  IF start < skip_bytes
        THEN IF start + read_len > skip_bytes
             THEN [overflow |-> skip_bytes < bytes_received
                                \/ read_len < bytes_to_skip,
                   dest_start |-> 0,
                   src_start |-> bytes_to_skip,
                   copy_len |-> Wrap(read_len - bytes_to_skip)]
             ELSE [overflow |-> FALSE, dest_start |-> 0, src_start |-> 0,
                   copy_len |-> 0]
        ELSE [overflow |-> FALSE, dest_start |-> start - skip_bytes,
              src_start |-> 0, copy_len |-> read_len]

\* variant: the copy length is not clipped
ClipEndNone(dest_start, copy_len, dest_len) ==
    [overflow |-> FALSE, copy_len |-> copy_len]

\* "check for end": the copy length clipped to the destination
ClipEnd(dest_start, copy_len, dest_len) ==
    IF dest_start + copy_len > dest_len
    THEN LET skip_end == dest_start + copy_len - dest_len
         IN  [overflow |-> copy_len < skip_end,
              copy_len |-> Wrap(copy_len - skip_end)]
    ELSE [overflow |-> FALSE, copy_len |-> copy_len]

\* slice[start..end] does not panic
SliceOk(start, end, len) == start <= end /\ end <= len

\* variant: the digest is updated with the bytes that are copied
DigestInputCopied(bytes_to_read, src_start, copy_len) ==
    SubSeq(bytes_to_read, src_start + 1, src_start + copy_len)

\* the bytes the digest is updated with
DigestInput(bytes_to_read, src_start, copy_len) == bytes_to_read

ReceiveData ==
    /\ Processing("ReceiveData")
    /\ LET digest == phase.digest
           parts_read == phase.parts_read
           bytes_received == phase.bytes_received
           bytes_left_to_read == operation.part_size - bytes_received
           read_len == Min(bytes_left_to_read, Len(bytes_to_process))
           bytes_to_read == SubSeq(bytes_to_process, 1, read_len)
           map == SkipMapping(parts_read, bytes_received, read_len)
           clip == ClipEnd(map.dest_start, map.copy_len, Len(operation.buffer))
           overflow == map.overflow \/ clip.overflow
           dest_start == map.dest_start
           src_start == map.src_start
           copy_len == clip.copy_len
           dest_stop == Wrap(dest_start + copy_len)
           src_stop == Wrap(src_start + copy_len)
           new_digest == DigestUpdate(digest,
                             DigestInput(bytes_to_read, src_start, copy_len))
           new_bytes_received == bytes_received + read_len
           sliced ==
               /\ SliceOk(dest_start, dest_stop, Len(operation.buffer))
               /\ SliceOk(src_start, src_stop, Len(bytes_to_read))
       IN  \/ /\ overflow
              /\ overflow_checks # "off"
              /\ overflow_checks' = "on"
              /\ result' = Panic("overflow")
              /\ UNCHANGED <<phase, bytes_processed, operation, dest_end>>
           \/ /\ overflow => overflow_checks # "on"
              /\ overflow_checks' = AfterOverflow(overflow, "off")
              /\ dest_end' = dest_stop
              /\ IF sliced
                 THEN /\ operation' =
                           [operation EXCEPT !.buffer =
                               CopyFromSlice(@, dest_start, bytes_to_read,
                                             src_start, copy_len)]
                      /\ bytes_processed' = bytes_processed + read_len
                      /\ phase' =
                           IF new_bytes_received = operation.part_size
                           THEN PhaseReceiveCrc(DigestFinalize(new_digest),
                                                parts_read, None)
                           ELSE PhaseReceiveData(new_digest, parts_read,
                                                 new_bytes_received)
                      /\ UNCHANGED result
                 ELSE /\ result' = Panic("slice index")
                      /\ UNCHANGED <<phase, bytes_processed, operation>>
    /\ UNCHANGED <<buffer_valid_bytes, io, response, inputs,
                   bytes_to_transfer, response_end, command_sent_at>>

\* variant: only the low byte of the CRC is compared
CrcAcceptedLowByte(crc, expected_crc) ==
    crc % 256 = expected_crc % 256 \/ ~operation.crc_enabled

\* variant: the CRC is compared even when CRC checking is off
CrcAcceptedStrict(crc, expected_crc) == crc = expected_crc

\* the received CRC is accepted
CrcAccepted(crc, expected_crc) ==
    crc = expected_crc \/ ~operation.crc_enabled

\* variant: the call succeeds as soon as one part is complete
LastPartAny(new_parts_read) == new_parts_read >= 1

\* variant: one more part is awaited than the operation has
LastPartLate(new_parts_read) == new_parts_read = operation.parts + 1

\* new_parts_read == operation.parts
LastPart(new_parts_read) == new_parts_read = operation.parts

ReceiveCrc ==
    /\ Processing("ReceiveCrc")
    /\ bytes_processed' = bytes_processed + 1
    /\ IF phase.byte_0 # None
       THEN LET byte_1 == bytes_to_process[1]
                crc == U16FromBeBytes(phase.byte_0, byte_1)
                new_parts_read == phase.parts_read + 1
            IN  IF CrcAccepted(crc, phase.expected_crc)
                THEN IF LastPart(new_parts_read)
                     THEN result' = Ok /\ UNCHANGED phase
                     ELSE /\ phase' = PhaseReceiveStartBlockToken(now,
                                                                new_parts_read)
                          /\ UNCHANGED result
                ELSE result' = ErrInvalidCrc /\ UNCHANGED phase
       ELSE /\ phase' = PhaseReceiveCrc(phase.expected_crc, phase.parts_read,
                                        bytes_to_process[1])
            /\ UNCHANGED result
    /\ UNCHANGED <<buffer_valid_bytes, overflow_checks, io, slots, inputs,
                   ghosts>>

Next ==
    \/ PlanPanic
    \/ TransferInPlace
    \/ TransferSpiError
    \/ SendCommand
    \/ ReceiveResponseStart
    \/ ReceiveResponse
    \/ WaitUntilNotBusy
    \/ ReceiveStartBlockToken
    \/ ReceiveData
    \/ ReceiveCrc

Spec == Init /\ [][Next]_vars

TypeOK ==
    /\ result.tag \in {"Running", "Ok", "Spi", "ReceiveResponseTimeout",
                       "ExpectedStartBlockToken", "InvalidCrc",
                       "ReceiveDataTimeout", "Panic"}
    /\ bytes_processed <= buffer_valid_bytes
    /\ buffer_valid_bytes <= Len(buffer)
    /\ now \in 0..MaxTime
    /\ clocked \in 0..MaxClocked

\* the calls with a Busy-signal operation; the engine never stops running
\* while it has work: transfers complete and the interpreter runs on
BusyNext ==
    \/ PlanPanic
    \/ TransferInPlace
    \/ TransferSpiError
    \/ SendCommand
    \/ ReceiveResponseStart
    \/ ReceiveResponse
    \/ WaitUntilNotBusy

BusySpec == BusyInit /\ [][BusyNext]_vars /\ WF_vars(BusyNext)

(***************************************************************************)
(* Termination: the calls with no operation or a Read, on a transport that *)
(* never fails and under a clock that advances between two transfers.  The *)
(* engine keeps running while it has work.                                 *)
(***************************************************************************)
\* the clock is first read when the command has been sent
AdvancingTicks == IF phase.tag = "SendCommand" THEN {0} ELSE {1}

TransferAdvancing == Transfer(AdvancingTicks, ReturnMaxTime, ReturnMaxClocked)

ReturnInit == NoneInit \/ ReadInit

ReturnNext ==
    \/ PlanPanic
    \/ TransferAdvancing
    \/ SendCommand
    \/ ReceiveResponseStart
    \/ ReceiveResponse
    \/ ReceiveStartBlockToken
    \/ ReceiveData
    \/ ReceiveCrc

ReturnSpec == ReturnInit /\ [][ReturnNext]_vars /\ WF_vars(ReturnNext)

(***************************************************************************)
(* format_command on its own: the inputs are drawn from every command      *)
(* index and from arguments that set each bit of the u32.                   *)
(***************************************************************************)
CommandIndices == 0..63

ArgumentHalves == {2^k : k \in 0..15} \cup {0, 65535, 258, 772, 426}

Arguments ==
    {[hi |-> h, lo |-> 0] : h \in ArgumentHalves}
    \cup {[hi |-> 0, lo |-> l] : l \in ArgumentHalves}
    \cup {[hi |-> 65535, lo |-> 65535], Command17Argument}

FormatInit ==
    \E index \in CommandIndices, arg \in Arguments :
        /\ command_index = index
        /\ argument = arg
        /\ command = <<0, 0, 0, 0, 0, 0>>
        /\ result = [tag |-> "format_command"]
        /\ NoCardInit
        /\ read_start = 0
        /\ block_address = 0
        /\ buffer = <<>>
        /\ expected_bytes_until_response = 0
        /\ response = <<>>
        /\ response_timeout = ResponseTimeout
        /\ operation = [kind |-> "None"]
        /\ phase = PhaseSendCommand(0)
        /\ buffer_valid_bytes = 0
        /\ bytes_processed = 0
        /\ overflow_checks = "either"
        /\ now = 0
        /\ card = <<>>
        /\ scenario = Scenario(0, FALSE, FALSE, 0, NoFault, 0, IdleByte)
        /\ clocked = 0
        /\ clocked_out = <<>>
        /\ bytes_to_transfer = 0
        /\ response_end = 0
        /\ dest_end = 0
        /\ command_sent_at = 0

\* format_command returns
FormatCommand ==
    /\ result.tag = "format_command"
    /\ command' = format_command(command_index, argument)
    /\ result' = [tag |-> "Formatted"]
    /\ UNCHANGED <<read_start, block_address, command_index, argument,
                   buffer,
                   expected_bytes_until_response, response, response_timeout,
                   operation, phase, buffer_valid_bytes, bytes_processed,
                   overflow_checks, now, card, scenario, clocked, clocked_out,
                   ghosts, card_init>>

FormatNext == FormatCommand

FormatSpec == FormatInit /\ [][FormatNext]_vars

(***************************************************************************)
(* The shared bus (src/src/shared_spi_bus): lock() returns a guard of the  *)
(* mutex around the bus, and the guard is dropped when the function that   *)
(* took it returns.  The driver's functions record what they do on the bus *)
(* in issued.                                                              *)
(***************************************************************************)
Write(n) == [op |-> "write", len |-> n]

SetLow == [op |-> "cs", level |-> "low"]

SetHigh == [op |-> "cs", level |-> "high"]

Flush == [op |-> "flush"]

Issue(command_index_, argument_) ==
    [op |-> "command", command_index |-> command_index_,
     argument |-> argument_]

\* variant: CS is driven high and nothing is written after it
DeselectNoFiller == <<Flush, SetHigh, Flush>>

\* flush, cs.set_high(), one 0xFF byte, flush
DeselectSteps == <<Flush, SetHigh, Write(1), Flush>>

\* variant: the guard is dropped as soon as the card is selected
ReleasedEarly(outcome) == IF cs' = "low" THEN "free" ELSE lock

\* the mutex after a step of the driver that holds the guard: the function
\* returns Ok or an Err and drops the guard, or it goes on (a panic does
\* not return)
Released(outcome) ==
    IF outcome.tag \in {"Ok", "Error"} THEN "free" ELSE "driver"

\* the card sends 0xFF for ever in place of a start token
NoToken == <<>>

\* the card accepts the command and never sends a token
TokenNeverComes(r1, token) == r1 # IdleByte /\ token = NoToken

\* the end of read and of capacity, as DeselectSteps; failed is the step
\* that fails (0: none)
Epilogue(failed) ==
    LET done == IF failed = 0 THEN DeselectSteps
                ELSE SubSeq(DeselectSteps, 1, failed - 1)
    IN  [done |-> done,
         cs |-> IF \E i \in 1..Len(done) : done[i] = SetHigh
                THEN "high" ELSE cs,
         error |-> IF failed = 0 THEN ""
                   ELSE IF DeselectSteps[failed] = SetHigh THEN "CsPin"
                   ELSE "SpiBus"]

(***************************************************************************)
(* SdCardDisk::read (src/src/lib.rs): one CMD17 per block through the      *)
(* single-block engine card_command_3.  The disk is one array of bytes;    *)
(* the card answers CMD17 for block b with the bytes of that block.        *)
(***************************************************************************)
\* the byte of the disk at a byte address: every address has its own value
DiskByte(address) == (address * 37 + 11) % 256

DiskBlock(block) ==
    [i \in 1..DiskBlockSize |-> DiskByte(block * DiskBlockSize + i - 1)]

\* the start addresses from which a whole buffer lies on the disk
Starts == 0..((DiskBlocks - 1) * DiskBlockSize)

\* u32::from_be_bytes of the argument bytes of a command frame
FrameArgument(frame) ==
    ((frame[2] * 256 + frame[3]) * 256 + frame[4]) * 256 + frame[5]

\* what the card sends while a CMD17 frame and the bytes after it are clocked
BlockStream(frame, fill, r1, token, crc_flip) ==
    LET data == DiskBlock(FrameArgument(frame))
        crc == Xor(DigestUpdate(0, data), crc_flip)
    IN  CommandTimeBytes \o Repeat(IdleByte, fill) \o <<r1>>
        \o Repeat(IdleByte, fill) \o token \o data
        \o <<crc \div 256, crc % 256>>

\* card_command_3 with a Read operation, on a transport that does not fail
\* and a card that sends stream: the response is the first byte with bit 7
\* clear and what follows it, the data are the bytes after the start token
card_command_3(stream, response_len, destination) ==
    LET received == SubSeq(stream, CommandSize + 1, Len(stream))
        scan == ScanR1(received, 0, FALSE)
        response_end_index == scan.r1_index + response_len
        after == SubSeq(received, response_end_index + 1, Len(received))
        token_index == TokenScan(after, 0)
        data == SubSeq(after, token_index + 2,
                       token_index + 1 + Len(destination))
        crc == U16FromBeBytes(after[token_index + 2 + Len(destination)],
                              after[token_index + 3 + Len(destination)])
    IN  IF scan.r1_index = None
        THEN [result |-> ErrReceiveResponseTimeout(scan.data_received),
              response |-> Untouched(response_len), buffer |-> destination]
        ELSE LET r == SubSeq(received, scan.r1_index + 1, response_end_index)
             IN  IF ~IsStartBlockToken(after[token_index + 1])
                 THEN [result |-> ErrExpectedStartBlockToken,
                       response |-> r, buffer |-> destination]
                 ELSE [result |-> IF crc = DigestUpdate(0, data)
                                  THEN Ok ELSE ErrInvalidCrc,
                       response |-> r, buffer |-> data]

DiskError(what) == [tag |-> "Error", error |-> what]

start_block == read_start \div DiskBlockSize

end_block ==
    (read_start + Len(buffer) + DiskBlockSize - 1) \div DiskBlockSize

\* the variables of the engine that SdCardDisk::read has no use for
idle == <<expected_bytes_until_response, response_timeout, operation,
          buffer_valid_bytes, bytes_processed, overflow_checks, now,
          scenario, clocked, clocked_out, ghosts, got_response,
          attempt_number, byte_seen, spi_failed, intruded>>

DiskInit ==
    \E s \in Starts :
        /\ read_start = s
        /\ NoCardInit
        /\ buffer = Untouched(DiskBlockSize)
        /\ block_address = 0
        /\ command_index = Command17Index
        /\ argument = [hi |-> 0, lo |-> 0]
        /\ command = <<0, 0, 0, 0, 0, 0>>
        /\ response = Untouched(1)
        /\ card = <<>>
        /\ phase = [tag |-> "lock"]
        /\ result = [tag |-> "Running"]
        /\ expected_bytes_until_response = 0
        /\ response_timeout = ResponseTimeout
        /\ operation = [kind |-> "None"]
        /\ buffer_valid_bytes = 0
        /\ bytes_processed = 0
        /\ overflow_checks = "either"
        /\ now = 0
        /\ scenario = Scenario(0, FALSE, TRUE, 0, NoFault, 0, IdleByte)
        /\ clocked = 0
        /\ clocked_out = <<>>
        /\ bytes_to_transfer = 0
        /\ response_end = 0
        /\ dest_end = 0
        /\ command_sent_at = 0

\* the lock, the 25 MHz configuration, self.sd_card.cs.set_low(), then the
\* first value of the loop variable
CsSetLow ==
    /\ Running
    /\ phase.tag = "lock"
    /\ lock = "free"
    /\ \/ /\ phase' = [tag |-> "for"]
          /\ block_address' = start_block
          /\ cs' = "low"
          /\ issued' = issued \o <<SetLow>>
          /\ UNCHANGED result
       \/ /\ result' = DiskError("CsPin")
          /\ UNCHANGED <<phase, block_address, cs, issued>>
    /\ UNCHANGED <<read_start, buffer, command_index, argument, command, response,
                   card, idle>>
    /\ lock' = Released(result')

\* one turn of the loop: CMD17 for block_address with the caller's whole
\* buffer as the destination, then the check of R1
ReadBlock ==
    /\ Running
    /\ phase.tag = "for"
    /\ block_address < end_block
    /\ \E fill \in 0..MaxFill, r1 \in {0, R1Byte, IdleByte},
          token \in {<<START_BLOCK_TOKEN>>, DataErrorToken, NoToken},
          crc_flip \in {0, 1}, spi_ok \in BOOLEAN :
        \E frame \in {format_command(
                          command_index,
                          [hi |-> block_address \div 65536,
                           lo |-> block_address % 65536])} :
        \E stream \in {BlockStream(frame, fill, r1, token, crc_flip)} :
        \E call \in {card_command_3(stream, 1, buffer)} :
            /\ argument' = [hi |-> block_address \div 65536,
                            lo |-> block_address % 65536]
            /\ command' = frame
            /\ card' = stream
            /\ issued' = issued \o <<Issue(command_index, block_address)>>
            /\ IF ~spi_ok
               THEN /\ result' = DiskError("SpiBus")
                    /\ UNCHANGED <<buffer, response, block_address, phase>>
               ELSE IF TokenNeverComes(r1, token)
               THEN /\ response' = <<r1>>
                    /\ phase' = [tag |-> "token", then |-> phase.tag]
                    /\ UNCHANGED <<buffer, result, block_address>>
               ELSE /\ UNCHANGED phase
                    /\ response' = call.response
                    /\ buffer' = call.buffer
                    /\ IF call.result = ErrReceiveResponseTimeout(FALSE)
                       THEN /\ result' = DiskError("NoResponse")
                            /\ UNCHANGED block_address
                       ELSE IF call.result # Ok \/ call.response[1] # 0
                       THEN /\ result' = DiskError("InitFailed")
                            /\ UNCHANGED block_address
                       ELSE /\ block_address' = block_address + 1
                            /\ UNCHANGED result
    /\ UNCHANGED <<read_start, command_index, cs, idle>>
    /\ lock' = Released(result')

\* after the loop: flush, cs.set_high(), one 0xFF, flush
ReadDone ==
    /\ Running
    /\ phase.tag = "for"
    /\ block_address >= end_block
    /\ \E failed \in 0..Len(DeselectSteps) :
        /\ issued' = issued \o Epilogue(failed).done
        /\ cs' = Epilogue(failed).cs
        /\ result' = IF failed = 0 THEN Ok
                     ELSE DiskError(Epilogue(failed).error)
    /\ UNCHANGED <<read_start, block_address, buffer, command_index, argument,
                   command, response, card, phase, idle>>
    /\ lock' = Released(result')

\* idle without the clock
idle_but_now == <<expected_bytes_until_response, response_timeout, operation,
                  buffer_valid_bytes, bytes_processed, overflow_checks,
                  scenario, clocked, clocked_out, ghosts, got_response,
                  attempt_number, byte_seen, spi_failed, intruded>>

\* card_command_3 in Phase::ReceiveStartBlockToken on a card that sends
\* 0xFF: ten milliseconds pass, every byte of the transfer is skipped, the
\* next transfer is planned and done; operation.timeout is not read
AwaitStartBlockToken ==
    /\ Running
    /\ phase.tag = "token"
    /\ now' = IF now < ReturnMaxTime THEN now + 1 ELSE now
    /\ UNCHANGED <<read_start, block_address, buffer, command_index, argument,
                   command, response, card, phase, result, cs, issued, lock,
                   idle_but_now>>

\* the transfer of that phase fails: card_command_3 returns Spi and the
\* caller SpiBus
TokenTransferFails ==
    /\ Running
    /\ phase.tag = "token"
    /\ result' = DiskError("SpiBus")
    /\ UNCHANGED <<read_start, block_address, buffer, command_index, argument,
                   command, response, card, phase, cs, issued, idle>>
    /\ lock' = Released(result')

DiskNext ==
    \/ CsSetLow
    \/ ReadBlock
    \/ AwaitStartBlockToken
    \/ TokenTransferFails
    \/ ReadDone

DiskSpec == DiskInit /\ [][DiskNext]_vars

(***************************************************************************)
(* SdCardDisk::capacity (src/src/lib.rs): CMD9 through card_command_3 with *)
(* the sixteen bytes of the CSD as the destination.                        *)
(***************************************************************************)
Command9Index == 9

\* size_of::<CsdV2>()
CsdSize == 16

\* the CSD register of the card
CsdBytes == [i \in 1..CsdSize |-> i]

\* what the card sends while a CMD9 frame and the bytes after it are clocked
CsdStream(fill, r1, token, crc_flip) ==
    LET crc == Xor(DigestUpdate(0, CsdBytes), crc_flip)
    IN  CommandTimeBytes \o Repeat(IdleByte, fill) \o <<r1>>
        \o Repeat(IdleByte, fill) \o token \o CsdBytes
        \o <<crc \div 256, crc % 256>>

CapacityInit ==
    /\ NoCardInit
    /\ read_start = 0
    /\ buffer = Untouched(CsdSize)
    /\ block_address = 0
    /\ command_index = Command9Index
    /\ argument = [hi |-> 0, lo |-> 0]
    /\ command = <<0, 0, 0, 0, 0, 0>>
    /\ response = Untouched(1)
    /\ card = <<>>
    /\ phase = [tag |-> "capacity"]
    /\ result = [tag |-> "Running"]
    /\ expected_bytes_until_response = 0
    /\ response_timeout = ResponseTimeout
    /\ operation = [kind |-> "None"]
    /\ buffer_valid_bytes = 0
    /\ bytes_processed = 0
    /\ overflow_checks = "either"
    /\ now = 0
    /\ scenario = Scenario(0, FALSE, TRUE, 0, NoFault, 0, IdleByte)
    /\ clocked = 0
    /\ clocked_out = <<>>
    /\ bytes_to_transfer = 0
    /\ response_end = 0
    /\ dest_end = 0
    /\ command_sent_at = 0

\* the lock, the 25 MHz configuration and self.sd_card.cs.set_low()
CapacitySelect ==
    /\ Running
    /\ phase.tag = "capacity"
    /\ lock = "free"
    /\ \/ /\ phase' = [tag |-> "csd"]
          /\ cs' = "low"
          /\ issued' = issued \o <<SetLow>>
          /\ UNCHANGED result
       \/ /\ result' = DiskError("CsPin")
          /\ UNCHANGED <<phase, cs, issued>>
    /\ UNCHANGED <<read_start, block_address, buffer, command_index, argument,
                   command, response, card, idle>>
    /\ lock' = Released(result')

\* CMD9 with csd_bytes as the destination, then the check of R1
ReadCsd ==
    /\ Running
    /\ phase.tag = "csd"
    /\ \E fill \in 0..MaxFill, r1 \in {0, R1Byte, IdleByte},
          token \in {<<START_BLOCK_TOKEN>>, DataErrorToken, NoToken},
          crc_flip \in {0, 1}, spi_ok \in BOOLEAN :
        \E frame \in {format_command(command_index, [hi |-> 0, lo |-> 0])} :
        \E stream \in {CsdStream(fill, r1, token, crc_flip)} :
        \E call \in {card_command_3(stream, 1, buffer)} :
            /\ command' = frame
            /\ card' = stream
            /\ issued' = issued \o <<Issue(command_index, 0)>>
            /\ IF ~spi_ok
               THEN /\ result' = DiskError("SpiBus")
                    /\ UNCHANGED <<buffer, response, phase>>
               ELSE IF TokenNeverComes(r1, token)
               THEN /\ response' = <<r1>>
                    /\ phase' = [tag |-> "token", then |-> phase.tag]
                    /\ UNCHANGED <<buffer, result>>
               ELSE /\ response' = call.response
                    /\ buffer' = call.buffer
                    /\ IF call.result = ErrReceiveResponseTimeout(FALSE)
                       THEN /\ result' = DiskError("NoResponse")
                            /\ UNCHANGED phase
                       ELSE IF call.result # Ok \/ call.response[1] # 0
                       THEN /\ result' = DiskError("InitFailed")
                            /\ UNCHANGED phase
                       ELSE /\ phase' = [tag |-> "csd_read"]
                            /\ UNCHANGED result
    /\ UNCHANGED <<read_start, block_address, command_index, argument, cs,
                   idle>>
    /\ lock' = Released(result')

\* after the CSD: flush, cs.set_high(), one 0xFF, flush
CapacityDone ==
    /\ Running
    /\ phase.tag = "csd_read"
    /\ \E failed \in 0..Len(DeselectSteps) :
        /\ issued' = issued \o Epilogue(failed).done
        /\ cs' = Epilogue(failed).cs
        /\ result' = IF failed = 0 THEN Ok
                     ELSE DiskError(Epilogue(failed).error)
    /\ UNCHANGED <<read_start, block_address, buffer, command_index, argument,
                   command, response, card, phase, idle>>
    /\ lock' = Released(result')

CapacityNext == CapacitySelect \/ ReadCsd \/ CapacityDone

(***************************************************************************)
(* read and capacity on a transport that does not fail while the start     *)
(* token is awaited, and a scheduler that lets the driver run.             *)
(***************************************************************************)
DiskReturnInit == DiskInit \/ CapacityInit

DiskReturnNext ==
    \/ CsSetLow
    \/ ReadBlock
    \/ ReadDone
    \/ CapacitySelect
    \/ ReadCsd
    \/ CapacityDone
    \/ AwaitStartBlockToken

DiskReturnSpec ==
    DiskReturnInit /\ [][DiskReturnNext]_vars /\ WF_vars(DiskReturnNext)

(***************************************************************************)
(* Properties.                                                             *)
(***************************************************************************)
\* the destination is exactly the window the caller asked for
ValidRead ==
    /\ OpIs("Read")
    /\ Len(operation.buffer) + operation.skip_bytes
         = operation.parts * operation.part_size

\* position in the stream (1-based) of the first byte after the command
\* bytes that has bit 7 clear; 0 if there is none
FirstR1 ==
    LET candidates ==
            {i \in (CommandSize + 1)..Len(card) : Bit7Clear(card[i])}
    IN  IF candidates = {} THEN 0
        ELSE CHOOSE i \in candidates : \A j \in candidates : i <= j

\* some SPI transfer has been issued
TransferIssued == clocked > 0 \/ result = ErrSpi

\* C1: when a Read with destination_len + S = N * P returns Ok, the
\* destination holds the concatenated part payloads from stream offset S on:
\* destination[i] = payload[S + i] for every i.
C1_DestinationIsPayloadWindow ==
    (result = Ok /\ ValidRead) =>
        \A i \in 1..Len(operation.buffer) :
            operation.buffer[i] = PayloadByte(operation.skip_bytes + i - 1)

C1_Witness ==
    /\ result = Ok
    /\ ValidRead
    /\ operation.parts = 2
    /\ operation.skip_bytes = 2
    /\ operation.crc_enabled
    /\ Len(buffer) = 2

\* C2: with a Busy-signal operation, once the response has been received the
\* call ends in success (or with the transport's error), however many 0x00
\* busy bytes come before the first non-zero byte and wherever the transfer
\* boundaries fall.
C2_BusyReleaseSucceeds ==
    (/\ OpIs("BusySignal")
     /\ operation.expected_bytes_until_not_busy >= 1
     /\ phase.tag = "WaitUntilNotBusy")
    ~> (result = Ok \/ result = ErrSpi)

\* C3: every SPI transfer has a length between 1 and scratch.len().
C3_TransferLengthInRange ==
    TransferIssued =>
        /\ 1 <= bytes_to_transfer
        /\ bytes_to_transfer <= Len(buffer)

C3_Witness ==
    /\ Running
    /\ Len(buffer) >= 2
    /\ clocked >= 2 * Len(buffer)
    /\ bytes_to_transfer = Len(buffer)

\* C4: every slice of the response slot the engine writes ends at or before
\* response_len, and every slice of the Read destination it writes ends at or
\* before destination_len.
C4_WritesWithinBounds ==
    /\ response_end <= Len(response)
    /\ OpIs("Read") => dest_end <= Len(operation.buffer)

C4_Witness ==
    /\ OpIs("Read")
    /\ ~ValidRead
    /\ phase.tag = "ReceiveCrc"
    /\ response_end = Len(response)
    /\ dest_end = Len(operation.buffer)
    /\ Len(operation.buffer) > 0

\* the second CRC byte of a part is about to be interpreted, CRC checking is
\* on, and the two bytes differ from the CRC-16 of the part's payload
CrcMismatchArrives ==
    /\ Processing("ReceiveCrc")
    /\ phase.byte_0 # None
    /\ operation.crc_enabled
    /\ U16FromBeBytes(phase.byte_0, bytes_to_process[1])
         # PartCrc(phase.parts_read + 1, operation.part_size)

\* C5: with crc_enabled, when the CRC bytes received after a part differ from
\* the CRC-16 of its payload the call returns InvalidCrc at that part and
\* parts_read is not incremented.
C5_InvalidCrcAtPart ==
    [][CrcMismatchArrives => (result' = ErrInvalidCrc /\ phase' = phase)]_vars

C5_Witness ==
    /\ result = ErrInvalidCrc
    /\ scenario.fault.kind = "crc_hi"
    /\ phase.tag = "ReceiveCrc"
    /\ phase.parts_read = 1

\* the stream has correct framing: only 0xFF filler, a response, a start
\* token before each part and the right CRC after it
WellFormedStream ==
    /\ scenario.responds
    /\ ~scenario.garbage
    /\ scenario.fault = NoFault

\* C6: on a stream with correct framing a call with no operation or with a
\* Read ends in nothing but Ok, unless a deadline expires or the transport
\* fails.
C6_WellFormedStreamSucceeds ==
    (/\ WellFormedStream
     /\ OpIs("None") \/ ValidRead
     /\ ~Running)
    => result.tag \in {"Ok", "Spi", "ReceiveResponseTimeout",
                       "ReceiveDataTimeout"}

\* the number of parts whose payload the card delivers before the call ends
DeliveredParts ==
    LET fault == scenario.fault
    IN  CASE fault.kind = "none" -> operation.parts
          [] fault.kind \in {"token", "silent"} -> fault.part - 1
          [] OTHER -> IF operation.crc_enabled THEN fault.part
                      ELSE operation.parts

\* the outcome the stream determines when no deadline expires
ExpectedResult ==
    IF ~OpIs("Read") THEN Ok
    ELSE CASE scenario.fault.kind = "none" -> Ok
           [] scenario.fault.kind = "token" -> ErrExpectedStartBlockToken
           [] scenario.fault.kind = "silent" ->
                ErrReceiveDataTimeout(scenario.fault.part - 1)
           [] OTHER -> IF operation.crc_enabled THEN ErrInvalidCrc ELSE Ok

ExpectedDestination ==
    [i \in 1..Len(operation.buffer) |->
        IF operation.skip_bytes + i - 1 < DeliveredParts * operation.part_size
        THEN PayloadByte(operation.skip_bytes + i - 1)
        ELSE Untouched(Len(operation.buffer))[i]]

\* the call has ended, and not by a deadline or a transport error
EndedByStream ==
    /\ ~Running
    /\ scenario.responds
    /\ result.tag \notin {"Spi", "ReceiveResponseTimeout", "ReceiveDataTimeout"}

\* C7: the outcome of a call, the response slot and the destination are
\* determined by the card's stream and the call's arguments other than the
\* scratch buffer: they are the same for every scratch length.
C7_OutcomeIndependentOfSplit ==
    (EndedByStream /\ (OpIs("None") \/ OpIs("BusySignal") \/ ValidRead)) =>
        /\ result = ExpectedResult
        /\ \A k \in 1..Len(response) : response[k] = CardByte(FirstR1 + k - 1)
        /\ OpIs("Read") => operation.buffer = ExpectedDestination

\* C8: on success the response slot holds the first byte with bit 7 clear
\* received after the six command bytes, followed by the bytes received
\* right after it.
C8_ResponseSlot ==
    result = Ok =>
        /\ FirstR1 # 0
        /\ \A k \in 1..Len(response) : response[k] = CardByte(FirstR1 + k - 1)

C8_Witness ==
    /\ result = Ok
    /\ scenario.garbage
    /\ Len(response) = 2
    /\ Len(buffer) = 1

\* position in the stream of the last response byte
LastResponsePosition == FirstR1 + Len(response) - 1

\* C9: with no operation the call returns Ok exactly when the last response
\* byte has been copied, in the transfer that delivered that byte, and
\* passes through no data or busy phase.
C9_NoneEndsWithResponse ==
    OpIs("None") =>
        /\ result = Ok <=> response_end = Len(response)
        /\ phase.tag \in {"SendCommand", "ReceiveResponseStart",
                          "ReceiveResponse"}
        /\ result = Ok =>
             /\ clocked - bytes_to_transfer < LastResponsePosition
             /\ LastResponsePosition <= clocked

C9_Witness ==
    /\ OpIs("None")
    /\ result = Ok
    /\ Len(response) = 2
    /\ Len(buffer) = 1
    /\ scenario.fill = 1

\* the bytes received since the command was sent
ResponseWaitPositions == (CommandSize + 1)..clocked

\* C10: the call fails with ReceiveResponseTimeout(data_seen) only in the
\* response-wait phase, when no byte received since the command was sent has
\* bit 7 clear and the response timeout has elapsed; data_seen tells whether
\* any of those bytes differs from 0xFF.
C10_ResponseTimeout ==
    result.tag = "ReceiveResponseTimeout" =>
        /\ phase.tag = "ReceiveResponseStart"
        /\ \A i \in ResponseWaitPositions : ~Bit7Clear(CardByte(i))
        /\ now - command_sent_at >= response_timeout
        /\ result.data_received
             = (\E i \in ResponseWaitPositions : CardByte(i) # 255)

C10_Witness ==
    /\ result = ErrReceiveResponseTimeout(TRUE)
    /\ Len(buffer) = 1
    /\ clocked > CommandSize + 2

\* position in the stream of the first byte the interpreter has not processed
NextPosition == clocked - buffer_valid_bytes + bytes_processed + 1

\* position in the stream of the first byte other than 0xFF among the
\* received bytes not yet processed; 0 if there is none
FirstNonIdle ==
    LET candidates == {i \in NextPosition..clocked : CardByte(i) # 255}
    IN  IF candidates = {} THEN 0
        ELSE CHOOSE i \in candidates : \A j \in candidates : i <= j

\* no byte of the destination that belongs to part number part (0-based) or
\* to a later part has been written
PartUnwritten(part) ==
    \A i \in 1..Len(operation.buffer) :
        operation.skip_bytes + i - 1 >= part * operation.part_size
            => operation.buffer[i] = Untouched(Len(operation.buffer))[i]

C12_DataTimeoutOnlyWithoutToken ==
    /\ [](result.tag = "ReceiveDataTimeout" =>
            /\ phase.tag = "ReceiveStartBlockToken"
            /\ result.parts_read = phase.parts_read
            /\ bytes_processed = buffer_valid_bytes
            /\ now - phase.start_time > operation.timeout)
    /\ [][(/\ Processing("ReceiveStartBlockToken")
           /\ FirstNonIdle # 0
           /\ CardByte(FirstNonIdle) = START_BLOCK_TOKEN)
          => (/\ result' = result
              /\ phase' = PhaseReceiveData(DigestNew, phase.parts_read, 0))]_vars

\* the first 47 bits of a frame, most significant first: the five bytes the
\* CRC covers and the seven CRC bits
FrameBits(frame) ==
    [i \in 1..47 |-> (frame[((i - 1) \div 8) + 1] \div 2^(7 - ((i - 1) % 8))) % 2]

\* x^7 + x^3 + 1
Crc7Generator == <<1, 0, 0, 0, 1, 0, 0, 1>>

\* long division of a bit string by the generator, from bit i on
RECURSIVE Divide(_, _)
Divide(bits, i) ==
    IF i > 40 THEN bits
    ELSE IF bits[i] = 1
    THEN Divide([j \in 1..47 |->
                    IF j >= i /\ j <= i + 7
                    THEN (bits[j] + Crc7Generator[j - i + 1]) % 2
                    ELSE bits[j]], i + 1)
    ELSE Divide(bits, i + 1)

\* the CRC-7 of a frame re-verifies: the generator divides its first 47 bits
Crc7Verifies(frame) ==
    LET remainder == Divide(FrameBits(frame), 1)
    IN  \A j \in 1..47 : remainder[j] = 0

\* C13: for every command index below 64 and every argument, format_command
\* returns six bytes: byte 0 is 0b0100_0000 | index, bytes 1..4 are the
\* argument big-endian, and byte 5 is the CRC-7 of bytes 0..4 shifted left by
\* one with the low bit set, so that the CRC-7 re-verifies (CMD0 ends in
\* 0x95, CMD8 with 0x1AA in 0x87).
C13_CommandFrame ==
    result.tag = "Formatted" =>
        /\ Len(command) = 6
        /\ \A i \in 1..6 : command[i] \in 0..255
        /\ command[1] = 64 + command_index
        /\ command[1] < 128
        /\ command[2] * 256 + command[3] = argument.hi
        /\ command[4] * 256 + command[5] = argument.lo
        /\ command[6] % 2 = 1
        /\ Crc7Verifies(command)
        /\ (command_index = 0 /\ argument = [hi |-> 0, lo |-> 0])
              => command[6] = 149
        /\ (command_index = 8 /\ argument = [hi |-> 0, lo |-> 426])
              => command[6] = 135

C13_Witness ==
    /\ result.tag = "Formatted"
    /\ command_index = 63
    /\ argument = [hi |-> 65535, lo |-> 65535]
    /\ command[6] > 1

\* C14: when a transfer returns a transport error the call returns Spi at
\* once: that step clocks no byte and interprets nothing, and once the call
\* has ended with any failure (or with success) nothing happens any more: no
\* further transfer, no further interpretation, no retry.
C14_FailureEndsCall ==
    /\ [][result.tag # "Running" => UNCHANGED vars]_vars
    /\ [][(result' = ErrSpi /\ result # ErrSpi) =>
            /\ result.tag = "Running"
            /\ bytes_processed >= buffer_valid_bytes
            /\ UNCHANGED <<engine, io, slots>>]_vars

C14_Witness ==
    /\ result = ErrSpi
    /\ phase.tag = "ReceiveData"
    /\ clocked > CommandSize
    /\ Len(buffer) = 2

\* C15: a Read returns Ok only when every one of its parts was preceded by a
\* start token, had all its payload bytes and both CRC bytes received, and,
\* with crc_enabled, had a matching CRC: the call succeeds on the second CRC
\* byte of the last part, never with fewer parts read or inside a part.
C15_OkOnlyAfterAllParts ==
    (result = Ok /\ OpIs("Read")) =>
        /\ phase.tag = "ReceiveCrc"
        /\ phase.byte_0 # None
        /\ phase.parts_read + 1 = operation.parts
        /\ scenario.fault.kind \notin {"token", "silent"}
        /\ operation.crc_enabled => scenario.fault = NoFault
        /\ clocked >= Len(card)
        /\ bytes_processed = Len(card) - (clocked - buffer_valid_bytes)

C15_Witness ==
    /\ result = Ok
    /\ OpIs("Read")
    /\ operation.parts = 2
    /\ operation.crc_enabled
    /\ scenario.data_fill = 1
    /\ Len(buffer) = 3

\* C16: with crc_enabled = false a Read never fails with InvalidCrc: when the
\* second CRC byte of a part is consumed parts_read goes up by one whatever
\* the two bytes are, and the call succeeds if that was the last part and
\* otherwise awaits the next start token.
C16_CrcDisabledNeverInvalid ==
    /\ []((OpIs("Read") /\ ~operation.crc_enabled) => result # ErrInvalidCrc)
    /\ [][(/\ Processing("ReceiveCrc")
           /\ phase.byte_0 # None
           /\ ~operation.crc_enabled)
          => IF phase.parts_read + 1 = operation.parts
             THEN result' = Ok
             ELSE /\ result' = result
                  /\ phase' = PhaseReceiveStartBlockToken(now,
                                   phase.parts_read + 1)]_vars

C16_Witness ==
    /\ result = Ok
    /\ OpIs("Read")
    /\ ~operation.crc_enabled
    /\ operation.parts = 2
    /\ scenario.fault = [kind |-> "crc_lo", part |-> 1]


\* the call has returned to its caller: Ok or one of the typed errors
Returned ==
    result.tag \in {"Ok", "Spi", "ReceiveResponseTimeout",
                    "ExpectedStartBlockToken", "InvalidCrc",
                    "ReceiveDataTimeout"}

\* the card drives 0xFF for ever
SilentCard == ~scenario.responds /\ ~scenario.garbage

\* C17: with operation None or Read, on a transport that completes every
\* transfer and under a clock that advances between transfers, every call
\* eventually returns Ok or a typed error, whatever the card sends; a card
\* that sends 0xFF for ever gets ReceiveResponseTimeout(false).
C17_EveryCallReturns ==
    /\ <>Returned
    /\ SilentCard ~> (result = ErrReceiveResponseTimeout(FALSE))

\* C18: when SdCardDisk::read returns Ok, the buffer holds the bytes of the
\* disk at byte offsets [start, start + 512), for every start address,
\* multiple of 512 or not.
C18_ReadFillsWindow ==
    (result = Ok /\ phase.tag = "for") =>
        \A i \in 1..Len(buffer) : buffer[i] = DiskByte(read_start + i - 1)

\* the planner has run and handed a transfer to the transport
TransferPlanned == clocked' # clocked \/ (Running /\ result' = ErrSpi)

\* base of the transfer length in the three phases up to the response
StatedBase ==
    CASE phase.tag = "SendCommand" ->
            (CommandSize - phase.bytes_sent) + expected_bytes_until_response
            + Len(response)
      [] phase.tag = "ReceiveResponseStart" ->
            expected_bytes_until_response + Len(response)
      [] phase.tag = "ReceiveResponse" ->
            Len(response) - phase.bytes_received
      [] OTHER -> 0

\* bytes one part takes: pre-fetch hint, part_size payload bytes, CRC
StatedPartCost ==
    operation.expected_bytes_until_data + operation.part_size + CrcSize

StatedTailCost ==
    CASE OpIs("Read") -> StatedPartCost * operation.parts
      [] OpIs("BusySignal") -> operation.expected_bytes_until_not_busy
      [] OTHER -> 0

\* C19: a transfer planned in SendCommand(k), ReceiveResponseStart or
\* ReceiveResponse(k) has length min(scratch.len(), base + tail_cost), with
\* base = (6 - k) + expected_bytes_until_response + response.len(),
\* expected_bytes_until_response + response.len(), response.len() - k, and
\* tail_cost = 0 for None, (H + P + 2) * N for Read, the pre-fetch hint for
\* Busy-signal.
C19_ResponsePhaseLength ==
    [][(/\ TransferPlanned
        /\ phase.tag \in {"SendCommand", "ReceiveResponseStart",
                          "ReceiveResponse"})
       => bytes_to_transfer' = Min(Len(buffer), StatedBase + StatedTailCost)]_vars

\* the stated transfer length L in the three phases of a Read
StatedReadLength ==
    CASE phase.tag = "ReceiveStartBlockToken" ->
            StatedPartCost * (operation.parts - phase.parts_read)
      [] phase.tag = "ReceiveData" ->
            (operation.part_size - phase.bytes_received) + CrcSize
            + StatedPartCost * (operation.parts - phase.parts_read - 1)
      [] phase.tag = "ReceiveCrc" ->
            (CrcSize - (IF phase.byte_0 # None THEN 1 ELSE 0))
            + StatedPartCost * (operation.parts - phase.parts_read - 1)
      [] OTHER -> 0

\* C20: for a Read with destination_len + S = N * P and 0 <= S < P, when the
\* planner runs in ReceiveStartBlockToken(_, d), ReceiveData(_, d, k) or
\* ReceiveCrc(_, d, h), no unsigned subtraction underflows and the transfer
\* has length min(scratch.len(), L), with L = (H + P + 2) * (N - d),
\* (P - k) + 2 + (H + P + 2) * (N - d - 1), and
\* (2 - has_high_byte) + (H + P + 2) * (N - d - 1).
C20_ReadPhaseLength ==
    [][(/\ AtPlanner
        /\ ValidRead
        /\ phase.tag \in {"ReceiveStartBlockToken", "ReceiveData",
                          "ReceiveCrc"})
       => /\ ~PlanOverflow
          /\ TransferPlanned =>
                bytes_to_transfer' = Min(Len(buffer), StatedReadLength)]_vars

\* the operations the planner is stated to serve
PlannedOperation == OpIs("None") \/ ValidRead \/ OpIs("BusySignal")

\* C21: for a non-empty scratch buffer and operation None, Read or
\* Busy-signal with any pre-fetch hint, the length the planner computes is at
\* least 1 in every phase it runs in, so assert_ne!(bytes_to_transfer, 0)
\* never fires.
C21_PlannedLengthPositive ==
    /\ (AtPlanner /\ PlannedOperation /\ ~PlanOverflow) => BytesToTransfer >= 1
    /\ PlannedOperation => result # Panic("assert_ne")

\* C22: the bytes the host clocks out over one call are the six command
\* bytes in order as the first six bytes, each once, and after them only
\* 0xFF, also when the scratch buffer is shorter than the command; no byte
\* received from the card is clocked out again.
C22_ClockedOut ==
    \A i \in 1..Len(clocked_out) :
        clocked_out[i] = IF i <= CommandSize THEN command[i] ELSE IdleByte

C22_Witness ==
    /\ result = Ok
    /\ OpIs("Read")
    /\ Len(buffer) = 4
    /\ Len(clocked_out) > 2 * CommandSize
    /\ \E i \in 1..Len(buffer) : buffer[i] # IdleByte

\* the changes of phase that are stated
PhaseEdges ==
    {<<"SendCommand", "ReceiveResponseStart">>,
     <<"ReceiveResponseStart", "ReceiveResponse">>,
     <<"ReceiveResponse", "ReceiveStartBlockToken">>,
     <<"ReceiveResponse", "WaitUntilNotBusy">>,
     <<"ReceiveStartBlockToken", "ReceiveData">>,
     <<"ReceiveData", "ReceiveCrc">>,
     <<"ReceiveCrc", "ReceiveStartBlockToken">>}

\* the phases from which a call of each kind succeeds
SuccessPhase ==
    CASE OpIs("None") -> "ReceiveResponse"
      [] OpIs("Read") -> "ReceiveCrc"
      [] OpIs("BusySignal") -> "WaitUntilNotBusy"
      [] OTHER -> "none"

\* the phase is one the operation allows: the branches that end in
\* unreachable!() are those where this fails
PhaseMatchesOperation ==
    /\ phase.tag \in {"ReceiveStartBlockToken", "ReceiveData", "ReceiveCrc"}
         => OpIs("Read")
    /\ phase.tag = "WaitUntilNotBusy" => OpIs("BusySignal")
    /\ phase.tag # "WriteData"

\* one step keeps to the stated order
PhaseStep ==
    /\ (phase'.tag # phase.tag) =>
         (<<phase.tag, phase'.tag>> \in PhaseEdges)
    /\ (phase.tag = "ReceiveCrc" /\ phase'.tag = "ReceiveStartBlockToken") =>
         (phase'.parts_read = phase.parts_read + 1)
    /\ (result' = Ok /\ result # Ok) => (phase.tag = SuccessPhase)

\* C23: a call starts in SendCommand(0); the phase changes only along
\* SendCommand -> ReceiveResponseStart -> ReceiveResponse ->
\* {success | ReceiveStartBlockToken | WaitUntilNotBusy},
\* ReceiveStartBlockToken -> ReceiveData -> ReceiveCrc ->
\* {ReceiveStartBlockToken of the next part | success}, and
\* WaitUntilNotBusy -> success; the data phases are entered only by a Read and
\* WaitUntilNotBusy only by a Busy-signal, so no unreachable!() is reached.
C23_PhaseOrder ==
    /\ phase = PhaseSendCommand(0)
    /\ []PhaseMatchesOperation
    /\ [][PhaseStep]_vars

C23_Witness ==
    /\ result = Ok
    /\ OpIs("Read")
    /\ operation.parts = 2
    /\ phase.tag = "ReceiveCrc"
    /\ phase.parts_read = 1

ReadPhases == {"ReceiveStartBlockToken", "ReceiveData", "ReceiveCrc"}

\* the counters of the phase are in range
CountersInRange ==
    /\ phase.tag = "SendCommand" =>
         (0 <= phase.bytes_sent /\ phase.bytes_sent < CommandSize)
    /\ phase.tag = "ReceiveResponse" =>
         (0 <= phase.bytes_received /\ phase.bytes_received < Len(response))
    /\ phase.tag = "ReceiveData" =>
         (0 <= phase.bytes_received
          /\ phase.bytes_received < operation.part_size)
    /\ phase.tag \in ReadPhases =>
         (0 <= phase.parts_read /\ phase.parts_read < operation.parts)

\* the second CRC byte of the part arrives and the CRC is accepted
SecondCrcByteAccepted ==
    /\ phase.tag = "ReceiveCrc"
    /\ phase.byte_0 # None
    /\ buffer_valid_bytes > bytes_processed
    /\ \/ ~operation.crc_enabled
       \/ U16FromBeBytes(phase.byte_0, bytes_to_process[1])
            = phase.expected_crc

\* parts_read moves by one, on the second CRC byte of an accepted part
PartsReadStep ==
    (/\ phase.tag \in ReadPhases
     /\ phase'.tag \in ReadPhases
     /\ phase'.parts_read # phase.parts_read)
    => (phase'.parts_read = phase.parts_read + 1 /\ SecondCrcByteAccepted)

\* C24: in every reachable state SendCommand(k) has 0 <= k < 6,
\* ReceiveResponse(k) has 0 <= k < response.len(), ReceiveData(_, d, k) has
\* 0 <= k < part_size, and every Read phase has 0 <= parts_read < parts;
\* parts_read changes only by +1 and only when the second CRC byte of a part
\* has been accepted.
C24_CountersInRange == []CountersInRange /\ [][PartsReadStep]_vars

C24_Witness ==
    /\ phase.tag = "ReceiveData"
    /\ phase.parts_read = operation.parts - 1
    /\ phase.parts_read >= 1
    /\ phase.bytes_received = operation.part_size - 1
    /\ Len(response) = 1

\* CRC.checksum(bytes): the checksum of a whole sequence at once
Crc16Checksum(bytes) == DigestFinalize(DigestUpdate(DigestNew, bytes))

\* CRC bytes of the current part that the interpreter has taken
CrcBytesTaken ==
    IF result.tag \in {"Ok", "InvalidCrc"} THEN 2
    ELSE IF phase.byte_0 # None THEN 1 ELSE 0

\* position in the stream of the last data byte of the current part
LastDataPosition == NextPosition - 1 - CrcBytesTaken

\* C25: the expected CRC held in ReceiveCrc is CRC-16/XMODEM of exactly the
\* part_size raw bytes that followed the start token of that part, whatever
\* the skip prefix, the destination length and the transfers the part was
\* split over: the digest starts fresh with each part and is updated with
\* every raw byte.
C25_ExpectedCrcOfRawPart ==
    phase.tag = "ReceiveCrc" =>
        /\ CardByte(LastDataPosition - operation.part_size)
             = START_BLOCK_TOKEN
        /\ phase.expected_crc =
             Crc16Checksum([i \in 1..operation.part_size |->
                 CardByte(LastDataPosition - operation.part_size + i)])

C25_Witness ==
    /\ phase.tag = "ReceiveCrc"
    /\ phase.parts_read = 1
    /\ operation.skip_bytes = 2
    /\ Len(buffer) = 2
    /\ result = ErrInvalidCrc

\* the destination is shorter than parts * part_size - skip_bytes
ShortDestination ==
    /\ OpIs("Read")
    /\ Len(operation.buffer)
         < operation.parts * operation.part_size - operation.skip_bytes

\* C26: with a destination shorter than parts * part_size - skip_bytes the
\* payload bytes past the destination tail are clipped: however the part is
\* split over transfers the copy ends at the destination length, the call
\* ends without an arithmetic or index fault, and on Ok the destination
\* holds its length in stream bytes from offset skip_bytes on.
C26_ShortDestinationClipped ==
    ShortDestination =>
        /\ result.tag # "Panic"
        /\ dest_end <= Len(operation.buffer)
        /\ result = Ok => operation.buffer = ExpectedDestination

\* C27: the engine clocks no byte past the end of the operation: when the
\* call returns Ok the byte that ended it (the last response byte, the second
\* CRC byte of the last part, the first non-zero byte of a busy wait) is the
\* last byte of the final transfer, so every clocked byte has been consumed.
C27_NoByteLeftUnconsumed ==
    result = Ok => bytes_processed = buffer_valid_bytes

(***************************************************************************)
(* The scratch buffer on entry.  Each of its bytes is whatever the caller  *)
(* left there.  Stale stands for such a byte: it is not a value a transfer *)
(* or the planner writes, so a Stale byte in the buffer is a byte that has *)
(* not been written during the call, and a Stale byte anywhere else is a   *)
(* byte of the initial scratch contents that has leaked.                   *)
(***************************************************************************)
Stale == -1

\* the scratch buffer of call as the caller left it
StaleScratch(call) == InitScratch(call, Repeat(Stale, call.buffer_len))

ScratchInit ==
    \/ \E b \in ScratchLens, p \in 0..MaxPreFetch, r \in 1..MaxResponse,
          f \in 0..MaxFill :
           StaleScratch(Call(b, p, r, [kind |-> "None"],
                             Scenario(f, FALSE, TRUE, 0, NoFault, 0,
                                      IdleByte)))
    \/ \E b \in ScratchLens :
           StaleScratch(Call(b, MaxPreFetch, 1, [kind |-> "Write"],
                             Scenario(0, FALSE, TRUE, 0, NoFault, 0,
                                      IdleByte)))
    \/ \E b \in ScratchLens, h \in 0..MaxPreFetch, z \in 0..MaxBusy :
           StaleScratch(Call(b, MaxPreFetch, 1,
                             [kind |-> "BusySignal",
                              expected_bytes_until_not_busy |-> h],
                             Scenario(0, FALSE, TRUE, 0, NoFault, z, R1Byte)))
    \/ \E n \in 1..MaxParts :
           \E b \in ScratchLens, s \in 0..(PartSize - 1), crc \in BOOLEAN,
              h \in 0..MaxPreFetch, f \in 0..MaxFill, fault \in Faults(n) :
               StaleScratch(Call(b, MaxPreFetch, 1, ReadOp(n, s, crc, h, 0),
                                 Scenario(f, FALSE, TRUE, f, fault, 0,
                                          IdleByte)))

ScratchSpec == ScratchInit /\ [][Next]_vars

\* no byte of seq is a byte of the initial scratch contents
NoStale(seq) == \A i \in 1..Len(seq) : seq[i] # Stale

\* C28: the result, the response slot, the destination and the bytes clocked
\* out do not depend on the initial contents of the scratch buffer: no
\* scratch byte is interpreted or clocked out before the planner or a
\* transfer of this call has written it, and none reaches the response slot
\* or the destination.
C28_ScratchContentsIrrelevant ==
    /\ NoStale(bytes_to_process)
    /\ NoStale(clocked_out)
    /\ NoStale(response)
    /\ OpIs("Read") => NoStale(operation.buffer)

\* a call has returned Ok while part of the scratch buffer still holds what
\* the caller left there
C28_Witness ==
    /\ result = Ok
    /\ OpIs("Read")
    /\ ~NoStale(buffer)
    /\ clocked > Len(buffer)

(***************************************************************************)
(* SpiSdCard::init_card (src/src/lib.rs): the power-up sequence.  Each     *)
(* command is one call of card_command_3 with no operation, modelled by    *)
(* its outcome on what the card sends after the command bytes.  issued is  *)
(* the record of what init_card has done on the bus: writes of 0xFF bytes, *)
(* changes of the chip select, flushes, and the arguments of each          *)
(* format_command whose frame was handed to card_command_3.                *)
(***************************************************************************)
COMMAND_BYTES_UNTIL_RESPONSE == 2

Cmd0MaxAttempts == 50

Acmd41MaxAttempts == 100

IN_IDLE_STATE == 1

ILLEGAL_COMMAND == 4

check_pattern == 226

Cmd0 == Issue(0, 0)

\* variant: CMD59 with no flag set
Cmd59CrcOff == Issue(59, {})

\* Command59Argument::default() with CRC_ON set
Cmd59 == Issue(59, {"CRC_ON"})

Cmd8 ==
    Issue(8, [pcie1_2v_support |-> FALSE, pcie_availability |-> FALSE,
              voltage_accepted |-> {"_2_7V_3_6V"},
              check_pattern |-> check_pattern])

Cmd58 == Issue(58, 0)

Cmd55 == Issue(55, 0)

Acmd41 == Issue(41, {"HCS"})

\* R7Byte3(response[3]).get_voltage_accepted().contains(_2_7V_3_6V)
VoltageAccepted(r7) == r7[4] % 2 = 1

\* Ocr::supports_3_3v on response[1..5]: bit 20 or bit 21 of the u32
supports_3_3v(r3) == (r3[3] \div 16) % 2 = 1 \/ (r3[3] \div 32) % 2 = 1

\* what follows R1 in a five-byte response
ResponseTails ==
    {<<0, 0, 1, check_pattern>>, <<0, 0, 0, check_pattern>>, <<0, 0, 1, 0>>,
     <<64, 16, 1, check_pattern>>, <<64, 0, 128, 0>>}

Responses(response_len) ==
    IF response_len = 1
    THEN {<<r1>> : r1 \in {0, IN_IDLE_STATE, ILLEGAL_COMMAND}}
    ELSE {<<r1>> \o tail : r1 \in {0, IN_IDLE_STATE, ILLEGAL_COMMAND},
                           tail \in ResponseTails}

\* what the card sends after the command bytes (0xFF follows for ever): it
\* stays silent, sends a byte with bit 7 set, or answers at once, one byte
\* late, or in the second transfer
Replies(response_len) ==
    LET chunk == COMMAND_BYTES_UNTIL_RESPONSE + response_len
    IN  {<<>>, <<GarbageByte>>, Repeat(IdleByte, chunk) \o <<GarbageByte>>}
        \cup {Repeat(IdleByte, fill) \o answer :
                 fill \in {0, 1, chunk}, answer \in Responses(response_len)}

\* card_command_3 with no operation and a scratch buffer of 6 + 2 +
\* response.len() bytes, as init_card calls it: the first transfer carries
\* the command and chunk more bytes, each later transfer chunk bytes while R1
\* is awaited.  failed_transfer is the transfer that fails (0: none),
\* timeout_at the transfer after which the response deadline has passed.
\* seen: a byte other than 0xFF was received after the command.
CallNoOperation(stream, slot, failed_transfer, timeout_at) ==
    LET response_len == Len(slot)
        chunk == COMMAND_BYTES_UNTIL_RESPONSE + response_len
        line == stream \o Repeat(IdleByte, 3 * chunk)
        scan_1 == ScanR1(SubSeq(line, 1, chunk), 0, FALSE)
        scan_2 == ScanR1(SubSeq(line, 1, 2 * chunk), 0, FALSE)
        Answer(r1_index, valid) ==
            [i \in 1..response_len |->
                IF r1_index + i <= valid THEN line[r1_index + i] ELSE slot[i]]
    IN  IF failed_transfer = 1
        THEN [result |-> ErrSpi, response |-> slot, seen |-> FALSE]
        ELSE IF scan_1.r1_index # None
        THEN IF scan_1.r1_index + response_len <= chunk
                \/ failed_transfer # 2
             THEN [result |-> Ok,
                   response |-> Answer(scan_1.r1_index, 3 * chunk),
                   seen |-> TRUE]
             ELSE [result |-> ErrSpi,
                   response |-> Answer(scan_1.r1_index, chunk),
                   seen |-> TRUE]
        ELSE IF timeout_at = 1
        THEN [result |-> ErrReceiveResponseTimeout(scan_1.data_received),
              response |-> slot, seen |-> scan_1.data_received]
        ELSE IF failed_transfer = 2
        THEN [result |-> ErrSpi, response |-> slot,
              seen |-> scan_1.data_received]
        ELSE IF scan_2.r1_index # None
        THEN [result |-> Ok,
              response |-> Answer(scan_2.r1_index, 3 * chunk),
              seen |-> TRUE]
        ELSE [result |-> ErrReceiveResponseTimeout(scan_2.data_received),
              response |-> slot, seen |-> scan_2.data_received]

\* the calls card_command_3 can make of one command
Calls(slot) ==
    {CallNoOperation(stream, slot, failed_transfer, timeout_at) :
        stream \in Replies(Len(slot)), failed_transfer \in 0..2,
        timeout_at \in 1..2}

\* the map_err closure of every command after CMD0
CommandError(e) ==
    IF e.tag = "Spi" THEN DiskError("SpiBus")
    ELSE IF got_response \/ e.data_received THEN DiskError("InitFailed")
    ELSE DiskError("NoResponse")

\* the variables of the engine that init_card has no use for
bystanders == <<buffer, read_start, block_address, command_index, argument,
                command, expected_bytes_until_response, response_timeout,
                operation, buffer_valid_bytes, bytes_processed,
                overflow_checks, now, card, scenario, clocked, clocked_out,
                ghosts>>

At(step) == Running /\ phase.tag = step

Goto(step) == phase' = [tag |-> step]

CardInit ==
    /\ cs \in {"high", "low"}
    /\ got_response = FALSE
    /\ attempt_number = 0
    /\ issued = <<>>
    /\ byte_seen = FALSE
    /\ spi_failed = FALSE
    /\ lock = "free"
    /\ intruded = FALSE
    /\ phase = [tag |-> "power_up"]
    /\ result = [tag |-> "Running"]
    /\ response = <<0>>
    /\ buffer = <<>>
    /\ read_start = 0
    /\ block_address = 0
    /\ command_index = 0
    /\ argument = [hi |-> 0, lo |-> 0]
    /\ command = <<0, 0, 0, 0, 0, 0>>
    /\ card = <<>>
    /\ expected_bytes_until_response = COMMAND_BYTES_UNTIL_RESPONSE
    /\ response_timeout = ResponseTimeout
    /\ operation = [kind |-> "None"]
    /\ buffer_valid_bytes = 0
    /\ bytes_processed = 0
    /\ overflow_checks = "either"
    /\ now = 0
    /\ scenario = Scenario(0, FALSE, TRUE, 0, NoFault, 0, IdleByte)
    /\ clocked = 0
    /\ clocked_out = <<>>
    /\ bytes_to_transfer = 0
    /\ response_end = 0
    /\ dest_end = 0
    /\ command_sent_at = 0

\* the delay, the lock, the 400 kHz configuration and nine 0xFF bytes
PowerUp ==
    /\ At("power_up")
    /\ lock = "free"
    /\ \/ /\ issued' = issued \o <<Write(9)>>
          /\ Goto("set_low")
          /\ spi_failed' = FALSE
          /\ UNCHANGED result
       \/ /\ result' = Panic("unwrap")
          /\ spi_failed' = TRUE
          /\ UNCHANGED <<issued, phase>>
    /\ UNCHANGED <<cs, got_response, attempt_number, byte_seen, response,
                   intruded, bystanders>>
    /\ lock' = Released(result')

\* cs.set_low(), then a thousand 0xFF bytes
SelectCard ==
    /\ At("set_low")
    /\ \/ /\ result' = DiskError("CsPin")
          /\ UNCHANGED <<cs, issued, phase, spi_failed>>
       \/ /\ cs' = "low"
          /\ \/ /\ issued' = issued \o <<SetLow, Write(1000)>>
                /\ Goto("cmd0")
                /\ spi_failed' = FALSE
                /\ UNCHANGED result
             \/ /\ issued' = issued \o <<SetLow>>
                /\ result' = Panic("unwrap")
                /\ spi_failed' = TRUE
                /\ UNCHANGED phase
    /\ UNCHANGED <<got_response, attempt_number, byte_seen, response,
                   intruded, bystanders>>
    /\ lock' = Released(result')

\* one turn of the CMD0 loop that issues the command
SendCmd0 ==
    /\ At("cmd0")
    /\ attempt_number # Cmd0MaxAttempts
    /\ \E call \in Calls(response) :
        /\ issued' = issued \o <<Cmd0>>
        /\ response' = call.response
        /\ byte_seen' = (byte_seen \/ call.seen)
        /\ spi_failed' = (call.result = ErrSpi)
        /\ got_response' =
             CASE call.result = Ok -> TRUE
               [] call.result.tag = "ReceiveResponseTimeout" ->
                    got_response \/ call.result.data_received
               [] OTHER -> got_response
        /\ IF call.result = Ok /\ call.response[1] = IN_IDLE_STATE
           THEN /\ Goto("cmd59")
                /\ attempt_number' = 0
           ELSE /\ attempt_number' = attempt_number + 1
                /\ UNCHANGED phase
    /\ UNCHANGED <<cs, result, lock, intruded, bystanders>>

\* the turn of the CMD0 loop that finds attempt_number == max_attempts
Cmd0GiveUp ==
    /\ At("cmd0")
    /\ attempt_number = Cmd0MaxAttempts
    /\ result' = IF got_response THEN DiskError("InitFailed")
                 ELSE DiskError("NoResponse")
    /\ UNCHANGED <<cs, got_response, attempt_number, issued, byte_seen,
                   spi_failed, intruded, phase, response, bystanders>>
    /\ lock' = Released(result')

\* what init_card makes of the response r of a command: "" to go on, or the
\* error it returns
Cmd59Verdict(r) == IF r[1] # IN_IDLE_STATE THEN "InitFailed" ELSE ""

Cmd8Verdict(r) ==
    IF r[1] = ILLEGAL_COMMAND THEN "todo"
    ELSE IF r[1] # IN_IDLE_STATE THEN "InitFailed"
    ELSE IF ~VoltageAccepted(r) THEN "VoltageNotSupported"
    ELSE IF r[5] # check_pattern THEN "InitFailed"
    ELSE ""

Cmd58Verdict(r) ==
    IF r[1] # IN_IDLE_STATE THEN "InitFailed"
    ELSE IF ~supports_3_3v(r) THEN "VoltageNotSupported"
    ELSE ""

Cmd55Verdict(r) ==
    IF ~(r[1] = IN_IDLE_STATE \/ r[1] = 0) THEN "InitFailed" ELSE ""

OcrVerdict(r) == IF r[1] # 0 THEN "InitFailed" ELSE ""

Verdict(step, r) ==
    CASE step = "cmd59" -> Cmd59Verdict(r)
      [] step = "cmd8" -> Cmd8Verdict(r)
      [] step = "cmd58" -> Cmd58Verdict(r)
      [] step = "cmd55" -> Cmd55Verdict(r)
      [] step = "ocr" -> OcrVerdict(r)

\* a command after CMD0: the call, the map_err closure, and then the checks
\* of the response
Command(step, event, slot, next) ==
    /\ At(step)
    /\ \E call \in Calls(slot) :
        /\ issued' = issued \o <<event>>
        /\ response' = call.response
        /\ spi_failed' = (call.result = ErrSpi)
        /\ IF call.result # Ok
           THEN /\ result' = CommandError(call.result)
                /\ UNCHANGED phase
           ELSE IF Verdict(step, call.response) = "todo"
           THEN /\ result' = Panic("todo")
                /\ UNCHANGED phase
           ELSE IF Verdict(step, call.response) # ""
           THEN /\ result' = DiskError(Verdict(step, call.response))
                /\ UNCHANGED phase
           ELSE /\ Goto(next)
                /\ UNCHANGED result
    /\ UNCHANGED <<cs, got_response, byte_seen, intruded, bystanders>>
    /\ lock' = Released(result')

SendCmd59 ==
    /\ Command("cmd59", Cmd59, <<0>>, "cmd8")
    /\ UNCHANGED attempt_number

SendCmd8 ==
    /\ Command("cmd8", Cmd8, <<0, 0, 0, 0, 0>>, "cmd58")
    /\ UNCHANGED attempt_number

SendCmd58 ==
    /\ Command("cmd58", Cmd58, <<0, 0, 0, 0, 0>>, "cmd55")
    /\ UNCHANGED attempt_number

\* the turn of the ACMD41 loop that finds attempt_number == max_attempts
Acmd41GiveUp ==
    /\ At("cmd55")
    /\ attempt_number = Acmd41MaxAttempts
    /\ result' = DiskError("InitFailed")
    /\ UNCHANGED <<cs, got_response, attempt_number, issued, byte_seen,
                   spi_failed, intruded, phase, response, bystanders>>
    /\ lock' = Released(result')

\* the response array of the loop is <<0>> before its first command
LoopSlot == IF Len(response) = 1 THEN response ELSE <<0>>

SendCmd55 ==
    /\ attempt_number # Acmd41MaxAttempts
    /\ Command("cmd55", Cmd55, LoopSlot, "acmd41")
    /\ UNCHANGED attempt_number

\* variant: every R1 other than empty starts another turn
Acmd41VerdictLenient(r) == IF r[1] = 0 THEN "" ELSE "again"

Acmd41Verdict(r) ==
    IF r[1] = 0 THEN ""
    ELSE IF r[1] # IN_IDLE_STATE THEN "InitFailed"
    ELSE "again"

SendAcmd41 ==
    /\ At("acmd41")
    /\ \E call \in Calls(response) :
        /\ issued' = issued \o <<Acmd41>>
        /\ response' = call.response
        /\ spi_failed' = (call.result = ErrSpi)
        /\ IF call.result # Ok
           THEN /\ result' = CommandError(call.result)
                /\ UNCHANGED <<phase, attempt_number>>
           ELSE IF Acmd41Verdict(call.response) = ""
           THEN /\ Goto("ocr")
                /\ attempt_number' = 0
                /\ UNCHANGED result
           ELSE IF Acmd41Verdict(call.response) = "again"
           THEN /\ Goto("cmd55")
                /\ attempt_number' = attempt_number + 1
                /\ UNCHANGED result
           ELSE /\ result' = DiskError(Acmd41Verdict(call.response))
                /\ UNCHANGED <<phase, attempt_number>>
    /\ UNCHANGED <<cs, got_response, byte_seen, intruded, bystanders>>
    /\ lock' = Released(result')

ReadOcr ==
    /\ Command("ocr", Cmd58, <<0, 0, 0, 0, 0>>, "deselect")
    /\ UNCHANGED attempt_number

\* the end of init_card; failed is the step that fails (0: none)
Deselect ==
    /\ At("deselect")
    /\ \E failed \in 0..Len(DeselectSteps) :
        LET done == IF failed = 0 THEN DeselectSteps
                    ELSE SubSeq(DeselectSteps, 1, failed - 1)
        IN  /\ issued' = issued \o done
            /\ cs' = IF \E i \in 1..Len(done) : done[i] = SetHigh
                     THEN "high" ELSE cs
            /\ result' = IF failed = 0 THEN Ok
                         ELSE IF DeselectSteps[failed] = SetHigh
                         THEN DiskError("CsPin")
                         ELSE DiskError("SpiBus")
            /\ spi_failed' = (failed # 0 /\ DeselectSteps[failed] # SetHigh)
    /\ UNCHANGED <<got_response, attempt_number, byte_seen, intruded, phase,
                   response, bystanders>>
    /\ lock' = Released(result')

CardInitNext ==
    \/ PowerUp
    \/ SelectCard
    \/ SendCmd0
    \/ Cmd0GiveUp
    \/ SendCmd59
    \/ SendCmd8
    \/ SendCmd58
    \/ SendCmd55
    \/ SendAcmd41
    \/ Acmd41GiveUp
    \/ ReadOcr
    \/ Deselect

CardInitSpec == CardInit /\ [][CardInitNext]_vars

\* how many times event is in issued
Times(event) == Cardinality({i \in 1..Len(issued) : issued[i] = event})

\* the bus record of a run with cmd0s CMD0 attempts and pairs turns of the
\* ACMD41 loop
IssuedInOrder(cmd0s, pairs) ==
    <<Write(9), SetLow, Write(1000)>>
    \o Repeat(Cmd0, cmd0s)
    \o <<Issue(59, {"CRC_ON"}), Cmd8, Cmd58>>
    \o [i \in 1..(2 * pairs) |-> IF i % 2 = 1 THEN Cmd55 ELSE Acmd41]
    \o <<Cmd58>>
    \o <<Flush, SetHigh, Write(1), Flush>>

\* C29: when init_card returns Ok the commands went out in the order CMD0
\* (once or more), CMD59 with CRC on, CMD8, CMD58, one or more pairs of CMD55
\* and ACMD41, CMD58; CS was driven low before the first CMD0 and not driven
\* again until after the last CMD58, and only then was it driven high and
\* one 0xFF byte written.
C29_InitCommandOrder ==
    (phase.tag = "deselect" /\ result = Ok) =>
        /\ Times(Cmd0) >= 1
        /\ Times(Cmd55) >= 1
        /\ issued = IssuedInOrder(Times(Cmd0), Times(Cmd55))
        /\ cs = "high"

C29_Witness ==
    /\ phase.tag = "deselect"
    /\ result = Ok
    /\ Times(Cmd0) = 3
    /\ Times(Acmd41) = 2

\* the CMD0 loop has ended with the error what
Cmd0Failed(what) == phase.tag = "cmd0" /\ result = DiskError(what)

\* C30: init_card issues CMD0 at most 50 times, goes on to CMD59 as soon as
\* an attempt returns R1 equal to IN_IDLE_STATE, and after 50 attempts
\* without one returns NoResponse if no attempt has received a byte other
\* than 0xFF and InitFailed otherwise.
C30_Cmd0Attempts ==
    /\ Times(Cmd0) <= Cmd0MaxAttempts
    /\ At("cmd59") => response = <<IN_IDLE_STATE>>
    /\ phase.tag = "cmd0" =>
            /\ response # <<IN_IDLE_STATE>>
            /\ result \in {[tag |-> "Running"], DiskError("NoResponse"),
                            DiskError("InitFailed")}
            /\ ~Running => Times(Cmd0) = Cmd0MaxAttempts
            /\ Cmd0Failed("NoResponse") => ~byte_seen
            /\ Cmd0Failed("InitFailed") => byte_seen

\* C31: in the initialisation loop every ACMD41 comes right after a CMD55
\* whose R1 was IN_IDLE_STATE or empty; the loop is left for the last CMD58
\* with an empty R1 of ACMD41, an R1 of ACMD41 that is neither empty nor
\* IN_IDLE_STATE ends init_card with InitFailed, and after 100 pairs of CMD55
\* and ACMD41 init_card returns InitFailed.
C31_Acmd41Loop ==
    /\ \A i \in 1..Len(issued) :
           issued[i] = Acmd41 => (i > 1 /\ issued[i - 1] = Cmd55)
    /\ Times(Acmd41) <= Acmd41MaxAttempts
    /\ Times(Cmd55) <= Acmd41MaxAttempts
    /\ phase.tag = "acmd41" =>
           /\ Running => response[1] \in {0, IN_IDLE_STATE}
           /\ response[1] \notin {0, IN_IDLE_STATE} =>
                  result = DiskError("InitFailed")
    /\ At("ocr") => response = <<0>>
    /\ (At("cmd55") /\ Times(Acmd41) > 0) => response = <<IN_IDLE_STATE>>
    /\ (phase.tag = "cmd55" /\ attempt_number = Acmd41MaxAttempts) =>
           /\ Times(Acmd41) = Acmd41MaxAttempts
           /\ ~Running => result = DiskError("InitFailed")

C31_Witness ==
    /\ phase.tag = "cmd55"
    /\ result = DiskError("InitFailed")
    /\ Times(Acmd41) = Acmd41MaxAttempts

\* the place of a phase in the order of the phases
PhaseRank(p) ==
    CASE p.tag = "SendCommand" -> 0
      [] p.tag = "ReceiveResponseStart" -> 1
      [] p.tag = "ReceiveResponse" -> 2
      [] p.tag = "ReceiveStartBlockToken" -> 3 + 3 * p.parts_read
      [] p.tag = "ReceiveData" -> 4 + 3 * p.parts_read
      [] p.tag = "ReceiveCrc" -> 5 + 3 * p.parts_read
      [] OTHER -> 3

\* a pass of the inner loop: the interpreter runs on bytes it has
InterpreterPass == Running /\ bytes_processed < buffer_valid_bytes

\* the pass ends the call, consumes a byte, or moves to a later phase
PassAdvances ==
    InterpreterPass =>
        \/ result' # result
        \/ bytes_processed' > bytes_processed
        \/ PhaseRank(phase') > PhaseRank(phase)

\* C34: between two transfers every pass of the interpreter's inner loop
\* ends the call, consumes at least one byte of the valid prefix or moves to
\* a later phase, in every phase: the engine never spins without clocking
\* new bytes.
C34_PassAdvances == [][PassAdvances]_vars

\* C38: when card_command fails with ReceiveResponseTimeout, no byte of the
\* response slot and no byte of the destination of a Read has been modified
\* since the call began.
C38_TimeoutLeavesSlotsAlone ==
    result.tag = "ReceiveResponseTimeout" =>
        /\ response = Untouched(Len(response))
        /\ OpIs("Read") => operation.buffer = Untouched(Len(operation.buffer))

C38_Witness ==
    /\ result.tag = "ReceiveResponseTimeout"
    /\ OpIs("Read")
    /\ clocked > Len(buffer)
\* C35: when the transport reports an error during a bus operation of
\* init_card (the CMD0 attempts and the filler writes included), init_card
\* has returned Error::SpiBus: it has not panicked and it issues nothing more.
C35_SpiErrorReturned == spi_failed => result = DiskError("SpiBus")
\* C39: SdCardDisk::read and SdCardDisk::capacity return for every card
\* behaviour while transfers complete and the clock advances; a card that
\* accepts the command and sends 0xFF for ever makes them return an error
\* once READ_TIMEOUT / CSD_TIMEOUT has elapsed.
C39_DiskCallReturns == <>(~Running)
(***************************************************************************)
(* The driver and another user of the same SharedSpiBus.  The other user   *)
(* takes the mutex when it is free, transfers while it holds the guard,    *)
(* and drops the guard.                                                    *)
(***************************************************************************)
\* every variable but lock and intruded
driver == <<buffer, read_start, block_address, command_index, argument,
            command, expected_bytes_until_response, response,
            response_timeout, operation, phase, buffer_valid_bytes,
            bytes_processed, result, overflow_checks, now, card, scenario,
            clocked, clocked_out, ghosts, cs, got_response, attempt_number,
            issued, byte_seen, spi_failed>>

OtherLock ==
    /\ lock = "free"
    /\ lock' = "other"
    /\ UNCHANGED <<intruded, driver>>

\* the bytes reach the card when its CS is low
OtherTransfer ==
    /\ lock = "other"
    /\ intruded' = (intruded \/ cs = "low")
    /\ UNCHANGED <<lock, driver>>

OtherUnlock ==
    /\ lock = "other"
    /\ lock' = "free"
    /\ UNCHANGED <<intruded, driver>>

\* one of the three functions is called with the card deselected
BusInit == (CardInit \/ DiskInit \/ CapacityInit) /\ cs = "high"

BusNext ==
    \/ CardInitNext
    \/ DiskNext
    \/ CapacityNext
    \/ OtherLock
    \/ OtherTransfer
    \/ OtherUnlock

BusSpec == BusInit /\ [][BusNext]_vars

\* the function has taken the lock and has not returned
InTransaction ==
    /\ Running
    /\ phase.tag \notin {"power_up", "lock", "capacity"}

\* C32: on the success path of init_card, read and capacity the lock is held
\* from before CS is driven low until CS is high again and the filler byte
\* is written: while the function runs past its lock() the guard is the
\* driver's, CS is low only under the guard, and when the function has
\* returned Ok no other user has clocked bytes into the selected card.
C32_LockHeldAcrossTransaction ==
    /\ InTransaction => lock = "driver"
    /\ (Running /\ cs = "low") => lock = "driver"
    /\ result = Ok =>
           /\ ~intruded
           /\ cs = "high"
           /\ issued[Len(issued) - 1] = Write(1)

C32_Witness ==
    /\ result = Ok
    /\ lock = "other"
    /\ \E i \in 1..Len(issued) : issued[i] = Issue(Command9Index, 0)

\* C33: whenever the driver does not hold the lock, CS is high, so the
\* traffic of other users is never clocked into the selected card.
C33_CsHighWhenUnlocked ==
    /\ lock # "driver" => cs = "high"
    /\ ~intruded
(***************************************************************************)
(* The public command_N functions (src/src/lib.rs 145-561).  Each call is  *)
(* one action: the bus operations the function does in order, the one that *)
(* fails (0: none), and what it returns.  issued is the record of the last *)
(* call, result what it returned, cs the level it left.                    *)
(***************************************************************************)
\* transfer_in_place of n bytes
TransferOf(n) == [op |-> "transfer", len |-> n]

\* bound: most single-byte transfers until the byte waited for arrives
MaxWait == 2

\* R1 values of the card: empty, IN_IDLE_STATE, ILLEGAL_COMMAND
R1Values == {0, IN_IDLE_STATE, ILLEGAL_COMMAND}

BadR1(r1) == [tag |-> "Error", error |-> "BadR1", r1 |-> r1]

\* steps are done in order until the one that fails, whose error is
\* returned by `?`; when none fails the function goes on to return outcome
Run(steps, failed, outcome) ==
    LET done == IF failed = 0 THEN steps ELSE SubSeq(steps, 1, failed - 1)
        levels == {k \in 1..Len(done) : done[k].op = "cs"}
    IN  [issued |-> done,
         cs |-> IF levels = {} THEN cs
                ELSE done[CHOOSE k \in levels : \A j \in levels : j <= k].level,
         result |-> IF failed = 0 THEN outcome
                    ELSE IF steps[failed].op = "cs" THEN DiskError("CsPin")
                    ELSE DiskError("SpiBus")]

\* what the command_N functions leave alone
command_idle == <<buffer, read_start, block_address, argument, command,
                  expected_bytes_until_response, response, response_timeout,
                  operation, phase, buffer_valid_bytes, bytes_processed,
                  overflow_checks, now, card, scenario, clocked, clocked_out,
                  ghosts, got_response, attempt_number, byte_seen,
                  spi_failed, lock, intruded>>

\* the call of command_N that does steps and then returns or panics
Called(n, steps, failed, outcome) ==
    /\ result.tag # "Panic"
    /\ command_index' = n
    /\ issued' = Run(steps, failed, outcome).issued
    /\ cs' = Run(steps, failed, outcome).cs
    /\ result' = Run(steps, failed, outcome).result
    /\ UNCHANGED command_idle

\* cs.set_high(), then one 0xFF byte
Finish == <<SetHigh, Write(1)>>

\* the single-byte transfers of a loop that ends with the byte waited for
Wait(n) == Repeat(TransferOf(1), n)

CommandInit ==
    /\ NoCardInit
    /\ read_start = 0
    /\ buffer = <<>>
    /\ block_address = 0
    /\ command_index = 0
    /\ argument = [hi |-> 0, lo |-> 0]
    /\ command = <<0, 0, 0, 0, 0, 0>>
    /\ response = <<0>>
    /\ card = <<>>
    /\ phase = [tag |-> "command_n"]
    /\ result = [tag |-> "Running"]
    /\ expected_bytes_until_response = COMMAND_BYTES_UNTIL_RESPONSE
    /\ response_timeout = ResponseTimeout
    /\ operation = [kind |-> "None"]
    /\ buffer_valid_bytes = 0
    /\ bytes_processed = 0
    /\ overflow_checks = "either"
    /\ now = 0
    /\ scenario = Scenario(0, FALSE, TRUE, 0, NoFault, 0, IdleByte)
    /\ clocked = 0
    /\ clocked_out = <<>>
    /\ bytes_to_transfer = 0
    /\ response_end = 0
    /\ dest_end = 0
    /\ command_sent_at = 0

\* the bytes after the command frame in a transfer of len bytes, on a card
\* that sends answer after fill idle bytes
ReadBytes(len, fill, answer) ==
    SubSeq(Repeat(IdleByte, fill) \o answer \o Repeat(IdleByte, len), 1, len)

\* index of the first byte with bit 7 clear, or the length
RECURSIVE FirstBit7Clear(_, _)
FirstBit7Clear(bytes, i) ==
    IF i < Len(bytes) /\ ~Bit7Clear(bytes[i + 1])
    THEN FirstBit7Clear(bytes, i + 1) ELSE i

\* command_0: card_command_2 on a buffer of 6 + 2 + 1 bytes; todo!() when
\* none of the three bytes is an R1
command_0 ==
    \E fill \in 0..(COMMAND_BYTES_UNTIL_RESPONSE + 1), r1 \in R1Values,
       failed \in 0..4 :
        LET len == COMMAND_BYTES_UNTIL_RESPONSE + 1
            response_buffer == ReadBytes(len, fill, <<r1>>)
            i == FirstBit7Clear(response_buffer, 0)
            call == <<SetLow, TransferOf(CommandSize + len)>>
        IN  IF failed \in 1..2
            THEN Called(0, call, failed, Ok)
            ELSE IF i = len
            THEN failed = 0 /\ Called(0, call, 0, Panic("todo"))
            ELSE Called(0, call \o Finish, failed,
                        IF response_buffer[i + 1] = IN_IDLE_STATE THEN Ok
                        ELSE BadR1(response_buffer[i + 1]))

\* what command_8 makes of the R1 at read_bytes[i]: read_bytes[i + 4] is
\* read first, then read_bytes[i + 3]; an index past the end panics
Command8Outcome(read_bytes, i) ==
    IF read_bytes[i + 1] # IN_IDLE_STATE THEN BadR1(read_bytes[i + 1])
    ELSE IF i + 4 >= Len(read_bytes) THEN Panic("index")
    ELSE IF read_bytes[i + 5] # check_pattern
    THEN DiskError("CheckPatternMismatch")
    ELSE IF ~(read_bytes[i + 4] % 2 = 1) THEN DiskError("VoltageNotSupported")
    ELSE Ok

\* command_8: one transfer of 6 + 2 + 5 bytes; expect() panics when none of
\* the seven bytes is an R1
command_8 ==
    \E fill \in 0..(COMMAND_BYTES_UNTIL_RESPONSE + 5), r1 \in R1Values,
       tail \in ResponseTails, failed \in 0..4 :
        LET len == COMMAND_BYTES_UNTIL_RESPONSE + 5
            read_bytes == ReadBytes(len, fill, <<r1>> \o tail)
            i == FirstBit7Clear(read_bytes, 0)
            call == <<SetLow, TransferOf(CommandSize + len)>>
        IN  IF failed \in 1..2
            THEN Called(8, call, failed, Ok)
            ELSE IF i = len
            THEN failed = 0 /\ Called(8, call, 0, Panic("expect"))
            ELSE IF Command8Outcome(read_bytes, i).tag = "Panic"
            THEN failed = 0 /\ Called(8, call, 0, Command8Outcome(read_bytes, i))
            ELSE Called(8, call \o Finish, failed,
                        Command8Outcome(read_bytes, i))

\* card_command: the frame is written, then single bytes are transferred
\* until one has bit 7 clear
card_command(n, argument_, wait) ==
    <<SetLow, Issue(n, argument_)>> \o Wait(wait)

\* R1 is IN_IDLE_STATE or empty
IdleOrEmpty(r1) == r1 = IN_IDLE_STATE \/ r1 = 0

\* command_58: four more bytes for the OCR when R1 is idle or empty
command_58 ==
    \E wait \in 1..MaxWait, r1 \in R1Values, failed \in 0..(MaxWait + 5) :
        LET steps == card_command(58, 0, wait)
                     \o (IF IdleOrEmpty(r1) THEN <<TransferOf(4)>> ELSE <<>>)
                     \o Finish
        IN  /\ failed <= Len(steps)
            /\ Called(58, steps, failed,
                      IF IdleOrEmpty(r1) THEN Ok ELSE BadR1(r1))

\* command_55, command_a41 and command_59: R1 alone
command_55 ==
    \E wait \in 1..MaxWait, r1 \in R1Values, failed \in 0..(MaxWait + 4) :
        LET steps == card_command(55, 0, wait) \o Finish
        IN  /\ failed <= Len(steps)
            /\ Called(55, steps, failed,
                      IF IdleOrEmpty(r1) THEN Ok ELSE BadR1(r1))

command_a41 ==
    \E wait \in 1..MaxWait, r1 \in R1Values, failed \in 0..(MaxWait + 4) :
        LET steps == card_command(41, {"HCS"}, wait) \o Finish
        IN  /\ failed <= Len(steps)
            /\ Called(41, steps, failed,
                      IF IdleOrEmpty(r1) THEN Ok ELSE BadR1(r1))

command_59 ==
    \E wait \in 1..MaxWait, r1 \in R1Values, failed \in 0..(MaxWait + 4) :
        LET steps == card_command(59, {"CRC_ON"}, wait) \o Finish
        IN  /\ failed <= Len(steps)
            /\ Called(59, steps, failed,
                      IF IdleOrEmpty(r1) THEN Ok ELSE BadR1(r1))

\* command_9 and command_10: with an empty R1 the card is deselected and
\* selected again, a byte other than 0xFF is awaited and 16 + 2 bytes are
\* read; with any other R1 the function returns at once
RegisterRead(n, wait, r1, token_wait, crc_ok) ==
    IF r1 = 0
    THEN [steps |-> card_command(n, 0, wait) \o Finish \o <<SetLow>>
                    \o Wait(token_wait) \o <<TransferOf(CsdSize + CrcSize)>>
                    \o Finish,
          outcome |-> IF crc_ok THEN Ok ELSE DiskError("InvalidChecksum")]
    ELSE [steps |-> card_command(n, 0, wait), outcome |-> BadR1(r1)]

command_9 ==
    \E wait \in 1..MaxWait, r1 \in R1Values, token_wait \in 1..MaxWait,
       crc_ok \in BOOLEAN, failed \in 0..(2 * MaxWait + 8) :
        /\ failed <= Len(RegisterRead(9, wait, r1, token_wait, crc_ok).steps)
        /\ Called(9, RegisterRead(9, wait, r1, token_wait, crc_ok).steps,
                  failed,
                  RegisterRead(9, wait, r1, token_wait, crc_ok).outcome)

command_10 ==
    \E wait \in 1..MaxWait, r1 \in R1Values, token_wait \in 1..MaxWait,
       crc_ok \in BOOLEAN, failed \in 0..(2 * MaxWait + 8) :
        /\ failed <= Len(RegisterRead(10, wait, r1, token_wait, crc_ok).steps)
        /\ Called(10, RegisterRead(10, wait, r1, token_wait, crc_ok).steps,
                  failed,
                  RegisterRead(10, wait, r1, token_wait, crc_ok).outcome)

\* command_13: one more byte when R1 is idle or empty
command_13 ==
    \E wait \in 1..MaxWait, r1 \in R1Values, failed \in 0..(MaxWait + 5) :
        LET steps == card_command(13, 0, wait)
                     \o (IF IdleOrEmpty(r1) THEN <<TransferOf(1)>> ELSE <<>>)
                     \o Finish
        IN  /\ failed <= Len(steps)
            /\ Called(13, steps, failed,
                      IF IdleOrEmpty(r1) THEN Ok ELSE BadR1(r1))

\* command_17: with an empty R1 a byte other than 0xFF is awaited; after
\* the start token the block and two CRC bytes are read
command_17 ==
    \E wait \in 1..MaxWait, r1 \in R1Values, token_wait \in 1..MaxWait,
       token \in {START_BLOCK_TOKEN, DataErrorToken[1]}, crc_ok \in BOOLEAN,
       failed \in 0..(2 * MaxWait + 6) :
        LET steps ==
                card_command(17, block_address, wait)
                \o (IF r1 = 0 THEN Wait(token_wait) ELSE <<>>)
                \o (IF r1 = 0 /\ IsStartBlockToken(token)
                    THEN <<TransferOf(DiskBlockSize), TransferOf(CrcSize)>>
                    ELSE <<>>)
                \o Finish
            outcome ==
                IF r1 # 0 THEN BadR1(r1)
                ELSE IF ~IsStartBlockToken(token) THEN DiskError("BadData")
                ELSE IF crc_ok THEN Ok ELSE DiskError("InvalidChecksum")
        IN  /\ failed <= Len(steps)
            /\ Called(17, steps, failed, outcome)

\* command_12: one byte is skipped before R1 is awaited; R1 must be empty
command_12 ==
    \E wait \in 1..MaxWait, r1 \in R1Values, failed \in 0..(MaxWait + 5) :
        LET steps == <<SetLow, Issue(12, 0), TransferOf(1)>> \o Wait(wait)
                     \o Finish
        IN  /\ failed <= Len(steps)
            /\ Called(12, steps, failed, IF r1 = 0 THEN Ok ELSE BadR1(r1))

CommandNext ==
    \/ command_0
    \/ command_8
    \/ command_58
    \/ command_55
    \/ command_a41
    \/ command_9
    \/ command_59
    \/ command_10
    \/ command_13
    \/ command_17
    \/ command_12

CommandSpec == CommandInit /\ [][CommandNext]_vars

\* C36: a command_N function that returns Error::BadR1 has first driven CS
\* high and written one 0xFF byte, in that order.
C36_BadR1AfterDeselect ==
    (result.tag = "Error" /\ result.error = "BadR1") =>
        /\ Len(issued) >= 2
        /\ SubSeq(issued, Len(issued) - 1, Len(issued)) = <<SetHigh, Write(1)>>
        /\ cs = "high"

\* C37: command_8 never indexes outside its 13-byte buffer, wherever in the
\* seven bytes after the frame the first byte with bit 7 clear is, and
\* returns an error instead of panicking when there is none.
C37_Command8NeverPanics == command_index = 8 => result.tag # "Panic"
====
